---- MODULE Spec2Model ----
(***************************************************************************)
(* Simulation kernel of the assembly-line simulator (app/core).            *)
(*                                                                         *)
(* The kernel runs on a cooperative discrete-event scheduler: every        *)
(* process (pipeline controller, per-engine dispatch loop, task executor)  *)
(* runs until its next yield; the scheduler then pops the next event of    *)
(* its queue, ordered by (time, priority, insertion).  One action of this  *)
(* module is one scheduler step: the event at the head of the queue is     *)
(* processed and the process it resumes runs up to its next yield.         *)
(*                                                                         *)
(* Time is counted in units of 0.05 virtual minute, so that the engine     *)
(* yield of 0.1 minute and the halved first-task duration are integers.    *)
(* Task durations of the modelled processes are multiples of 0.1 minute.   *)
(***************************************************************************)
EXTENDS Integers, Sequences, FiniteSets, TLC

VARIABLES
    cfg,                \* GlobalConfig of the run
    nodes,              \* ProcessDefinition.nodes, in declaration order
    phase,              \* "created" | "running" | "done" | "failed"
    now,                \* env.now
    queue,              \* the scheduler's event queue, in processing order
    workers,            \* WorkerPool.workers : id -> WorkerAgent
    items,              \* WorkerPool.store.items
    get_queue,          \* WorkerPool.store.get_queue (pending gets)
    users,              \* PriorityResource.users, per critical equipment
    put_queue,          \* PriorityResource.put_queue, per critical equipment
    usage_log,          \* EquipmentManager.usage_log
    current_usage,      \* EquipmentManager.current_usage
    unlimited_equipment_usage,  \* EquipmentManager.unlimited_equipment_usage
    unlimited_equipment_count,  \* EquipmentManager.unlimited_equipment_count
    events,             \* EventCollector.events
    stats,              \* EventCollector's quality counters
    task,               \* locals of every execute_task generator
    engine,             \* locals of every _engine_process generator
    ctrl,               \* locals of the controller generator
    engines_completed,  \* SimulationEngine.engines_completed
    engine_start_times, \* SimulationEngine.engine_start_times
    engine_end_times,   \* SimulationEngine.engine_end_times
    np_draws,           \* draws taken from numpy's generator since seeding
    result,             \* the SimulationResult run() returned
    run,                \* 1 for the first run(), 2 for the repeated one
    result1             \* counters of the first run, once a second started

vars == <<cfg, nodes, phase, now, queue, workers, items, get_queue, users,
          put_queue, usage_log, current_usage, unlimited_equipment_usage,
          unlimited_equipment_count, events, stats, task, engine, ctrl,
          engines_completed, engine_start_times, engine_end_times, np_draws,
          result, run, result1>>

----------------------------------------------------------------------------
(* Bounds of the model *)

\* time budget T of the modelled configurations (units of 0.05 minute)
MaxT == 44

\* longest event log a run is followed to
MaxEvents == 30

(* Program constants, in units of 0.05 minute *)

\* yield self.env.timeout(0.1)
EngineYield == 2
\* yield self.env.timeout(10)
BackOff == 200
\* max(1.0, actual)
MinDuration == 20

\* discretised standard-normal deviates and uniform deviates (tenths)
NormalDeviates == {-1, 0, 1}
UniformDeviates == {2, 7}

NoSeed == -1
Unset == -1

----------------------------------------------------------------------------
(* Generic helpers *)

RemoveAt(q, i) == SubSeq(q, 1, i - 1) \o SubSeq(q, i + 1, Len(q))

MinOf(S) == CHOOSE x \in S : \A y \in S : x <= y

SetOfSeq(q) == {q[i] : i \in 1..Len(q)}

\* sum(f[i] for i in range)
RECURSIVE SumSeq(_)
SumSeq(q) == IF q = <<>> THEN 0 ELSE Head(q) + SumSeq(Tail(q))

----------------------------------------------------------------------------
(* Process definitions and configurations the runs are started with *)

Node(id, op, preds, dur, var, load, prob, nw, tools) ==
    [step_id |-> id, op_type |-> op, predecessors |-> preds,
     std_duration |-> dur, time_variance |-> var, work_load_score |-> load,
     rework_prob |-> prob, required_workers |-> nw, required_tools |-> tools,
     station |-> "ST01"]

\* the node, at another station than the default one
AtStation(node, station) == [node EXCEPT !.station = station]

Config(T, nw, equip, rtt, rdt, rlt, rdl, pipeline, seed) ==
    [sim_time_minutes |-> T, num_workers |-> nw, critical_equipment |-> equip,
     rest_time_threshold |-> rtt, rest_duration_time |-> rdt,
     rest_load_threshold |-> rlt, rest_duration_load |-> rdl,
     target_output |-> 1, pipeline_mode |-> pipeline,
     station_constraint_mode |-> FALSE, random_seed |-> seed]

\* the configuration, with station_constraint_mode switched on
StationMode(c) == [c EXCEPT !.station_constraint_mode = TRUE]

NoEquip == [e \in {} |-> 0]
TwoAtStation == [e \in {"ST01"} |-> 2]
OneBench == [e \in {"bench"} |-> 1]
TwoBench == [e \in {"bench"} |-> 2]

\* A, then B and C in parallel, each of the two needing a crew of two
ProcFork ==
    << Node("A", "H", {}, 4, 0, 5, 0, 1, <<>>),
       Node("B", "A", {"A"}, 6, 0, 5, 0, 2, <<>>),
       Node("C", "A", {"A"}, 4, 0, 5, 0, 2, <<"jig">>) >>

\* two start tasks competing for one bench, then a heavy joint task
ProcBench ==
    << Node("A", "A", {}, 6, 0, 5, 0, 1, <<"bench">>),
       Node("B", "A", {}, 4, 0, 9, 0, 1, <<"bench", "jig">>),
       Node("C", "T", {"A", "B"}, 4, 0, 8, 10, 1, <<>>) >>

\* a measurement that may be reworked, after a heavy handling step that
\* carries a rework probability although it is no measurement
ProcMeasure ==
    << Node("A", "H", {}, 8, 0, 9, 10, 1, <<>>),
       Node("B", "M", {"A"}, 10, 0, 9, 5, 1, <<"bench">>) >>

\* a measurement that is always reworked
ProcRetry ==
    << Node("A", "M", {}, 10, 0, 8, 10, 1, <<"bench">>) >>

\* sampled durations
ProcSampled ==
    << Node("A", "H", {}, 22, 2, 5, 0, 1, <<>>),
       Node("B", "M", {"A"}, 10, 0, 5, 5, 1, <<>>) >>

\* one short task
ProcUnit ==
    << Node("A", "H", {}, 8, 0, 5, 0, 1, <<>>) >>

\* four start tasks for two workers, the last one needing both of them,
\* and a task that becomes ready while the pool is empty
ProcQueue ==
    << Node("P", "H", {}, 2, 0, 5, 0, 1, <<>>),
       Node("Q", "H", {}, 20, 0, 5, 0, 1, <<>>),
       Node("D", "H", {}, 4, 0, 5, 0, 1, <<>>),
       Node("A", "H", {}, 4, 0, 5, 0, 2, <<>>),
       Node("B", "H", {"P"}, 4, 0, 5, 0, 1, <<>>) >>

\* two chains of equal length, the one of the second worker ending first
ProcTie ==
    << Node("A", "H", {}, 4, 0, 5, 0, 1, <<>>),
       Node("B", "H", {}, 6, 0, 5, 0, 1, <<>>),
       Node("C", "H", {"A"}, 2, 0, 5, 0, 1, <<>>) >>

\* one task that uses a tool no configuration declares
ProcJig ==
    << Node("A", "A", {}, 8, 0, 5, 0, 1, <<"jig">>) >>

\* one task of a quarter of a minute
ProcQuick ==
    << Node("A", "H", {}, 5, 0, 5, 0, 1, <<>>) >>

\* one task of nominal duration 0 on the bench
ProcInstant ==
    << Node("A", "H", {}, 0, 0, 5, 0, 1, <<"bench">>) >>

\* a measurement of nominal duration 0 that is always reworked
ProcStuck ==
    << Node("A", "M", {}, 0, 0, 5, 10, 1, <<>>) >>

\* two start tasks at the default station and a third one at a station of
\* its own that names the station among its tools
ProcStations ==
    << Node("A", "H", {}, 6, 0, 5, 0, 1, <<>>),
       Node("B", "H", {}, 4, 0, 5, 0, 1, <<"jig">>),
       AtStation(Node("C", "H", {}, 4, 0, 5, 0, 1, <<"ST02">>), "ST02") >>

\* one task of 28 minutes
ProcLong ==
    << Node("A", "H", {}, 560, 0, 5, 0, 1, <<>>) >>

\* one task of 10 minutes
ProcSingle ==
    << Node("A", "H", {}, 200, 0, 5, 0, 1, <<>>) >>

\* one task of the highest load score the data model allows
ProcHeavy ==
    << Node("A", "H", {}, 8, 0, 10, 0, 1, <<>>) >>

\* processes the validation of run() rejects
ProcEmpty == << >>

ProcCycle ==
    << Node("S", "H", {}, 4, 0, 5, 0, 1, <<>>),
       Node("A", "H", {"S", "B"}, 4, 0, 5, 0, 1, <<>>),
       Node("B", "H", {"A"}, 4, 0, 5, 0, 1, <<>>) >>

ProcSelf ==
    << Node("A", "H", {}, 4, 0, 5, 0, 1, <<>>),
       Node("B", "H", {"B"}, 4, 0, 5, 0, 1, <<>>) >>

\* a task that names a predecessor that is no step of the process
ProcDangling ==
    << Node("A", "H", {}, 4, 0, 5, 0, 1, <<>>),
       Node("B", "H", {"Z"}, 4, 0, 5, 0, 1, <<>>) >>

\* a task that needs a crew of two
ProcCrew ==
    << Node("A", "H", {}, 4, 0, 5, 0, 2, <<>>) >>

Scenarios ==
    { [cfg |-> Config(MaxT, 2, NoEquip, 1000, 2, 7, 2, TRUE, NoSeed),
       nodes |-> ProcFork],
      [cfg |-> Config(MaxT, 3, NoEquip, 8, 2, 7, 2, TRUE, NoSeed),
       nodes |-> ProcFork],
      [cfg |-> Config(MaxT, 2, NoEquip, 8, 2, 7, 2, FALSE, NoSeed),
       nodes |-> ProcFork],
      [cfg |-> Config(MaxT, 3, OneBench, 10, 2, 7, 4, TRUE, NoSeed),
       nodes |-> ProcBench],
      [cfg |-> Config(MaxT, 4, TwoBench, 10, 0, 7, 0, TRUE, NoSeed),
       nodes |-> ProcBench],
      [cfg |-> Config(MaxT, 2, OneBench, 0, 2, 7, 2, FALSE, NoSeed),
       nodes |-> ProcBench],
      [cfg |-> Config(MaxT, 1, OneBench, 16, 2, 7, 2, FALSE, 42),
       nodes |-> ProcMeasure],
      [cfg |-> Config(MaxT, 2, OneBench, 1000, 2, 7, 2, TRUE, 42),
       nodes |-> ProcMeasure],
      [cfg |-> Config(MaxT, 1, OneBench, 1000, 2, 7, 2, TRUE, NoSeed),
       nodes |-> ProcRetry],
      [cfg |-> Config(MaxT, 1, NoEquip, 1000, 2, 7, 2, FALSE, 42),
       nodes |-> ProcSampled],
      [cfg |-> Config(MaxT, 1, NoEquip, 1000, 2, 7, 2, FALSE, NoSeed),
       nodes |-> ProcSampled],
      [cfg |-> Config(30, 1, NoEquip, 1000, 2, 7, 2, FALSE, NoSeed),
       nodes |-> ProcSampled],
      [cfg |-> Config(6, 1, NoEquip, 1000, 2, 7, 2, FALSE, NoSeed),
       nodes |-> ProcQuick],
      [cfg |-> Config(MaxT + BackOff, 1, NoEquip, 1000, 2, 7, 2, TRUE, NoSeed),
       nodes |-> ProcUnit],
      [cfg |-> Config(MaxT, 1, NoEquip, 1000, 2, 7, 2, FALSE, NoSeed),
       nodes |-> ProcUnit],
      [cfg |-> Config(MaxT, 2, OneBench, 1000, 2, 7, 2, TRUE, NoSeed),
       nodes |-> ProcInstant],
      [cfg |-> Config(MaxT, 2, NoEquip, 1000, 2, 7, 2, TRUE, NoSeed),
       nodes |-> ProcJig],
      [cfg |-> Config(MaxT, 2, NoEquip, 1000, 2, 7, 2, FALSE, NoSeed),
       nodes |-> ProcQueue],
      [cfg |-> Config(MaxT, 2, NoEquip, 1000, 2, 7, 2, FALSE, NoSeed),
       nodes |-> ProcTie],
      [cfg |-> Config(MaxT, 1, NoEquip, 1000, 2, 7, 2, FALSE, NoSeed),
       nodes |-> ProcStuck],
      [cfg |-> StationMode(Config(MaxT, 3, NoEquip, 1000, 2, 7, 2, TRUE, NoSeed)),
       nodes |-> ProcStations],
      [cfg |-> StationMode(Config(MaxT, 3, TwoAtStation, 1000, 2, 7, 2, FALSE,
                                  NoSeed)),
       nodes |-> ProcStations],
      [cfg |-> StationMode(Config(MaxT, 3, OneBench, 1000, 2, 7, 2, TRUE, NoSeed)),
       nodes |-> ProcBench],
      [cfg |-> Config(MaxT, 2, NoEquip, 1000, 2, 7, 2, TRUE, NoSeed),
       nodes |-> ProcEmpty],
      [cfg |-> Config(MaxT, 2, NoEquip, 1000, 2, 7, 2, TRUE, NoSeed),
       nodes |-> ProcCycle],
      [cfg |-> Config(MaxT, 2, NoEquip, 1000, 2, 7, 2, FALSE, NoSeed),
       nodes |-> ProcSelf] }

\* requests with a defect that only validate_simulation_request looks for:
\* a predecessor that is no step of the process, a crew larger than the pool
Unvalidated ==
    { [cfg |-> Config(MaxT, 2, NoEquip, 1000, 2, 7, 2, TRUE, NoSeed),
       nodes |-> ProcDangling],
      [cfg |-> Config(MaxT, 1, NoEquip, 1000, 2, 7, 2, FALSE, NoSeed),
       nodes |-> ProcCrew] }

\* the shortest time budget of a GlobalConfig: work_hours_per_day = 1 and
\* work_days_per_month = 1 give sim_time_minutes = 60
Hour == 1200

\* a sequential run of one hour
FullHour ==
    { [cfg |-> Config(Hour, 1, NoEquip, 1000, 2, 7, 2, FALSE, NoSeed),
       nodes |-> ProcLong] }

\* one worker, one hour and the default rest rules (50, 5, 7 and 3), in
\* either mode
SingleTask ==
    { [cfg |-> Config(Hour, 1, NoEquip, 1000, 100, 7, 60, pipeline, NoSeed),
       nodes |-> ProcSingle] : pipeline \in BOOLEAN }

\* rest_time_threshold=999999 of SimulationEngineNoRest
NoRestThreshold == 999999 * 20

\* (variant) the load threshold of the given configuration is kept
NoRest_load_kept(c) ==
    [c EXCEPT !.rest_time_threshold = NoRestThreshold,
              !.rest_duration_time = 0,
              !.rest_duration_load = 0,
              !.random_seed = IF @ = NoSeed THEN @ ELSE @ + 1000]

\* the configuration SimulationEngineNoRest.__init__ builds from the given
\* one; random_seed stands for the seed run() hands to numpy, which is the
\* given seed plus 1000
NoRest(c) ==
    [c EXCEPT !.rest_time_threshold = NoRestThreshold,
              !.rest_duration_time = 0,
              !.rest_load_threshold = 10,
              !.rest_duration_load = 0,
              !.random_seed = IF @ = NoSeed THEN @ ELSE @ + 1000]

\* the runs of SimulationEngineNoRest
WithoutRest ==
    { [cfg |-> NoRest(sc.cfg), nodes |-> sc.nodes] : sc \in Scenarios }
    \cup { [cfg |-> NoRest(Config(MaxT, 1, NoEquip, 8, 2, 7, 2, FALSE, NoSeed)),
            nodes |-> ProcHeavy] }

----------------------------------------------------------------------------
(* DAG index (DAGScheduler) *)

StepIds == {nodes[i].step_id : i \in 1..Len(nodes)}

\* DAGScheduler.get_node
get_node(id) == nodes[CHOOSE i \in 1..Len(nodes) : nodes[i].step_id = id]

\* edges of the graph: only predecessors that are defined steps get an edge
predecessors(id) == {p \in get_node(id).predecessors : p \in StepIds}

\* graph.nodes(), in insertion order
graph_nodes == [i \in 1..Len(nodes) |-> nodes[i].step_id]

\* (variant) one node less than the process has
get_node_count_short == Len(nodes) - 1

get_node_count == Len(nodes)

get_start_nodes == SelectSeq(graph_nodes, LAMBDA id : predecessors(id) = {})

\* (variant) readiness that does not look at what is completed
get_ready_nodes_again(completed) ==
    SelectSeq(graph_nodes, LAMBDA id : predecessors(id) \subseteq completed)

\* (variant) readiness that does not look at the predecessors
get_ready_nodes_any(completed) ==
    SelectSeq(graph_nodes, LAMBDA id : id \notin completed)

get_ready_nodes(completed) ==
    SelectSeq(graph_nodes,
              LAMBDA id : id \notin completed /\ predecessors(id) \subseteq completed)

\* networkx.is_directed_acyclic_graph: the graph has no cycle iff taking
\* away, round after round, the nodes whose predecessors are all taken away
\* leaves no node (a node that is its own predecessor is never taken away)
RECURSIVE peel(_)
peel(sorted) ==
    LET more == {id \in StepIds \ sorted : predecessors(id) \subseteq sorted}
    IN  IF more = {} THEN sorted ELSE peel(sorted \cup more)

is_directed_acyclic_graph == peel({}) = StepIds

\* DAGScheduler.validate: its diagnosis, "ok" when the process is accepted
validate ==
    IF ~is_directed_acyclic_graph THEN "cycle"
    ELSE IF get_start_nodes = <<>> THEN "no_start"
    ELSE "ok"

----------------------------------------------------------------------------
(* The scheduler's queue.  Events are processed by (time, priority) and,  *)
(* among equals, in the order they were scheduled.  Initialize events of  *)
(* new processes are urgent (priority 0), all others normal (priority 1). *)

Ev(t, prio, kind, pk, u, st, val) ==
    [t |-> t, prio |-> prio, kind |-> kind, pk |-> pk, u |-> u, st |-> st,
     val |-> val]

NotAfter(e, ev) == e.t < ev.t \/ (e.t = ev.t /\ e.prio <= ev.prio)

Insert(q, ev) ==
    LET k == Cardinality({i \in 1..Len(q) : NotAfter(q[i], ev)})
    IN  SubSeq(q, 1, k) \o <<ev>> \o SubSeq(q, k + 1, Len(q))

\* env.schedule(event, priority, delay)
schedule(s, ev) == [s EXCEPT !.queue = Insert(@, ev)]

\* env.process(generator): the new process starts at its Initialize event
process(s, pk, u, st) == schedule(s, Ev(s.now, 0, "Initialize", pk, u, st, 0))

\* yield env.timeout(delay), by process (pk, u, st)
timeout(s, delay, pk, u, st) ==
    schedule(s, Ev(s.now + delay, 1, "Timeout", pk, u, st, 0))

----------------------------------------------------------------------------
(* Worker store (simpy.FilterStore) *)

\* a get's filter is either a worker id (lambda w: w.id == target_id) or
\* AnyIdle (lambda w: w.state == WorkerState.IDLE)
AnyIdle == 0

Matches(s, filter, w) ==
    IF filter = AnyIdle THEN s.workers[w].state = "IDLE" ELSE w = filter

\* BaseResource._trigger_get with FilterStore._do_get: every pending get, in
\* queue order, takes the first item its filter accepts
RECURSIVE store_trigger_get(_, _)
store_trigger_get(s, idx) ==
    IF idx > Len(s.get_queue) THEN s
    ELSE LET g == s.get_queue[idx]
             m == {i \in 1..Len(s.items) : Matches(s, g.filter, s.items[i])}
         IN  IF m = {} THEN store_trigger_get(s, idx + 1)
             ELSE LET i == MinOf(m)
                      s1 == [s EXCEPT !.items = RemoveAt(@, i),
                                      !.get_queue = RemoveAt(@, idx)]
                      s2 == schedule(s1, Ev(s.now, 1, "StoreGet", "task",
                                            g.u, g.st, s.items[i]))
                  IN  store_trigger_get(s2, idx)

\* store.get(filter)
store_get(s, u, st, filter) ==
    store_trigger_get(
        [s EXCEPT !.get_queue = Append(@, [u |-> u, st |-> st, filter |-> filter])],
        1)

\* store.put(worker): the item is stored at once; pending gets are looked at
\* when the put event is processed
store_put(s, w) ==
    schedule([s EXCEPT !.items = Append(@, w)],
             Ev(s.now, 1, "StorePut", "store", 0, "", w))

----------------------------------------------------------------------------
(* Critical equipment (simpy.PriorityResource) *)

Critical == DOMAIN cfg.critical_equipment

\* EquipmentManager.is_critical
is_critical(tool) == tool \in Critical

\* (variant) one unit more than configured
capacity_plus_one(e) == cfg.critical_equipment[e] + 1

capacity(e) == cfg.critical_equipment[e]

\* (variant) the newest request goes to the head of the queue
put_queue_append_front(q, r) == <<r>> \o q

\* SortedQueue.append: stable sort by the request key (priority, time)
put_queue_append(q, r) ==
    LET k == Cardinality({i \in 1..Len(q) :
                 q[i].priority < r.priority
                 \/ (q[i].priority = r.priority /\ q[i].time <= r.time)})
    IN  SubSeq(q, 1, k) \o <<r>> \o SubSeq(q, k + 1, Len(q))

\* BaseResource._trigger_put with Resource._do_put: only the head of the
\* queue is looked at
resource_trigger_put(s, e) ==
    IF s.put_queue[e] = <<>> THEN s
    ELSE LET r == Head(s.put_queue[e])
         IN  IF Len(s.users[e]) < capacity(e)
             THEN schedule([s EXCEPT !.users[e] = Append(@, r),
                                     !.put_queue[e] = Tail(@)],
                           Ev(s.now, 1, "Request", "task", r.u, r.st, e))
             ELSE s

\* resource.request(priority): request k of task (u, st)
resource_request(s, e, u, st, k, priority) ==
    resource_trigger_put(
        [s EXCEPT !.put_queue[e] =
            put_queue_append(@, [u |-> u, st |-> st, k |-> k,
                                 priority |-> priority, time |-> s.now])],
        e)

\* resource.release(request): the user is removed at once; the next waiter
\* is looked at when the release event is processed
resource_release(s, e, u, st, k) ==
    LET held == {i \in 1..Len(s.users[e]) :
                    /\ s.users[e][i].u = u /\ s.users[e][i].st = st
                    /\ s.users[e][i].k = k}
        s1 == IF held = {} THEN s
              ELSE [s EXCEPT !.users[e] = RemoveAt(@, MinOf(held))]
    IN  schedule(s1, Ev(s.now, 1, "Release", "equip", 0, "", e))

----------------------------------------------------------------------------
(* EquipmentManager *)

\* [t for t in tools if self.is_critical(t)]
critical_tools(tools) == SelectSeq(tools, is_critical)

\* the last interval of a usage list that is still open gets its end
close_last_open(log, t) ==
    LET open == {i \in 1..Len(log) : log[i][2] = -1}
    IN  IF open = {} THEN log
        ELSE LET i == CHOOSE j \in open : \A k \in open : k <= j
             IN  [log EXCEPT ![i] = <<log[i][1], t>>]

\* EquipmentManager._log_unlimited_usage_start
log_unlimited_usage_start(s, tool) ==
    [s EXCEPT !.unlimited_equipment_usage[tool] = Append(@, <<s.now, -1>>),
              !.unlimited_equipment_count[tool] = @ + 1]

\* EquipmentManager._log_unlimited_usage_end
log_unlimited_usage_end(s, tool) ==
    [s EXCEPT !.unlimited_equipment_usage[tool] = close_last_open(@, s.now),
              !.unlimited_equipment_count[tool] = IF @ > 0 THEN @ - 1 ELSE 0]

\* EquipmentManager.log_usage_start
log_usage_start(s, e) ==
    [s EXCEPT !.usage_log[e] = Append(@, <<s.now, -1>>),
              !.current_usage[e] = @ + 1]

\* EquipmentManager.log_usage_end
log_usage_end(s, e) ==
    IF s.usage_log[e] = <<>> THEN s
    ELSE [s EXCEPT !.usage_log[e] = close_last_open(@, s.now),
                   !.current_usage[e] = IF @ > 0 THEN @ - 1 ELSE 0]

\* EquipmentManager.request_equipment, tools[i..]; k counts the requests made
RECURSIVE request_equipment(_, _, _, _, _, _)
request_equipment(s, u, st, tools, i, k) ==
    IF i > Len(tools) THEN s
    ELSE IF is_critical(tools[i])
         THEN request_equipment(resource_request(s, tools[i], u, st, k + 1, 1),
                                u, st, tools, i + 1, k + 1)
         ELSE request_equipment(log_unlimited_usage_start(s, tools[i]),
                                u, st, tools, i + 1, k)

RECURSIVE release_critical(_, _, _, _, _)
release_critical(s, u, st, crit, k) ==
    IF k > Len(crit) THEN s
    ELSE release_critical(resource_release(s, crit[k], u, st, k), u, st, crit, k + 1)

RECURSIVE release_unlimited(_, _, _)
release_unlimited(s, tools, i) ==
    IF i > Len(tools) THEN s
    ELSE release_unlimited(
             IF is_critical(tools[i]) THEN s
             ELSE log_unlimited_usage_end(s, tools[i]),
             tools, i + 1)

\* EquipmentManager.release_equipment
release_equipment(s, u, st, tools) ==
    release_unlimited(release_critical(s, u, st, critical_tools(tools), 1),
                      tools, 1)

RECURSIVE log_usage_start_all(_, _, _)
log_usage_start_all(s, crit, i) ==
    IF i > Len(crit) THEN s
    ELSE log_usage_start_all(log_usage_start(s, crit[i]), crit, i + 1)

RECURSIVE log_usage_end_all(_, _, _)
log_usage_end_all(s, crit, i) ==
    IF i > Len(crit) THEN s
    ELSE log_usage_end_all(log_usage_end(s, crit[i]), crit, i + 1)

----------------------------------------------------------------------------
(* WorkerAgent and WorkerPool *)

WorkerIds == 1..cfg.num_workers

WorkerAgent ==
    [state |-> "IDLE", consecutive_work_time |-> 0, total_work_time |-> 0,
     total_rest_time |-> 0, tasks_completed |-> 0]

\* (variant) rest only beyond the threshold
needs_time_rest_beyond(w, threshold) == w.consecutive_work_time > threshold

\* WorkerAgent.needs_time_rest
needs_time_rest(w, threshold) == w.consecutive_work_time >= threshold

\* WorkerAgent.apply_rest
apply_rest(w, duration) ==
    [w EXCEPT !.total_rest_time = @ + duration, !.consecutive_work_time = 0]

\* (variant) the duration is accrued twice
add_work_time_twice(w, duration) ==
    [w EXCEPT !.consecutive_work_time = @ + duration,
              !.total_work_time = @ + 2 * duration]

\* WorkerAgent.add_work_time
add_work_time(w, duration) ==
    [w EXCEPT !.consecutive_work_time = @ + duration,
              !.total_work_time = @ + duration]

\* (variant) every worker of the pool counts as available
get_available_count_all(s) == cfg.num_workers

\* WorkerPool.get_available_count
get_available_count(s) ==
    Cardinality({w \in WorkerIds : s.workers[w].state = "IDLE"})

\* WorkerPool.check_workers_need_rest
check_workers_need_rest(s, ws, threshold) ==
    \E i \in 1..Len(ws) : needs_time_rest(s.workers[ws[i]], threshold)

\* WorkerPool.add_work_time_to_workers
add_work_time_to_workers(s, ws, duration) ==
    [s EXCEPT !.workers = [w \in DOMAIN @ |->
        IF w \in SetOfSeq(ws) THEN add_work_time(@[w], duration) ELSE @[w]]]

\* WorkerPool.increment_tasks_completed
increment_tasks_completed(s, ws) ==
    [s EXCEPT !.workers = [w \in DOMAIN @ |->
        IF w \in SetOfSeq(ws) THEN [@[w] EXCEPT !.tasks_completed = @ + 1]
        ELSE @[w]]]

set_state(s, ws, state) ==
    [s EXCEPT !.workers = [w \in DOMAIN @ |->
        IF w \in SetOfSeq(ws) THEN [@[w] EXCEPT !.state = state] ELSE @[w]]]

\* (variant) only the first worker of the crew is put back
release_workers_first(s, ws, i) ==
    IF i > Len(ws) THEN s
    ELSE store_put(set_state(s, <<ws[i]>>, "IDLE"), ws[i])

\* WorkerPool.release_workers, workers ws[i..]
RECURSIVE release_workers(_, _, _)
release_workers(s, ws, i) ==
    IF i > Len(ws) THEN s
    ELSE release_workers(store_put(set_state(s, <<ws[i]>>, "IDLE"), ws[i]),
                         ws, i + 1)

\* the worker request_workers asks for in one round of its loop: the idle
\* worker in the store with the least total_work_time (the sort is stable),
\* or any idle worker when the store holds none
target_filter(s) ==
    LET idle == {i \in 1..Len(s.items) : s.workers[s.items[i]].state = "IDLE"}
    IN  IF idle # {}
        THEN s.items[CHOOSE i \in idle : \A j \in idle :
                 \/ s.workers[s.items[i]].total_work_time
                      < s.workers[s.items[j]].total_work_time
                 \/ /\ s.workers[s.items[i]].total_work_time
                         = s.workers[s.items[j]].total_work_time
                    /\ i <= j]
        ELSE AnyIdle

\* WorkerPool.request_workers: one round of the loop, up to its yield
request_workers(s, u, st) ==
    [store_get(s, u, st, target_filter(s)) EXCEPT !.task[u, st].pc = "get"]

\* (variant) the resting crew goes back to the store
execute_rest_returning(s, u, st, duration, pc) ==
    LET s1 == release_workers(s, s.task[u, st].workers, 1)
    IN  [timeout(s1, duration, "task", u, st) EXCEPT
            !.task[u, st].pc = pc, !.task[u, st].rest_start = s.now]

\* WorkerPool.execute_rest, up to its yield
execute_rest(s, u, st, duration, pc) ==
    LET s1 == set_state(s, s.task[u, st].workers, "RESTING")
    IN  [timeout(s1, duration, "task", u, st) EXCEPT
            !.task[u, st].pc = pc, !.task[u, st].rest_start = s.now]

\* WorkerPool.execute_rest, after its yield
execute_rest_end(s, ws, duration) ==
    [s EXCEPT !.workers = [w \in DOMAIN @ |->
        IF w \in SetOfSeq(ws)
        THEN [apply_rest(@[w], duration) EXCEPT !.state = "WORKING"]
        ELSE @[w]]]

----------------------------------------------------------------------------
(* EventCollector *)

GanttEvent(u, st, start, end, type, ws, equip, rc) ==
    [engine_id |-> u, step_id |-> st, op_type |-> get_node(st).op_type,
     start_time |-> start, end_time |-> end, event_type |-> type,
     worker_ids |-> ws, equipment_used |-> equip, rework_count |-> rc]

\* (variant) only the NORMAL events of op_type M count as inspections
add_event_normal_only(s, e) ==
    [s EXCEPT !.events = Append(@, e),
              !.stats = [total_inspections |->
                             @.total_inspections
                               + IF e.op_type = "M" /\ e.event_type = "NORMAL"
                                 THEN 1 ELSE 0,
                         total_reworks |->
                             @.total_reworks + IF e.event_type = "REWORK" THEN 1 ELSE 0,
                         rework_time_total |->
                             @.rework_time_total
                               + IF e.event_type = "REWORK"
                                 THEN e.end_time - e.start_time ELSE 0]]

\* EventCollector.add_event
add_event(s, e) ==
    [s EXCEPT !.events = Append(@, e),
              !.stats = [total_inspections |->
                             @.total_inspections + IF e.op_type = "M" THEN 1 ELSE 0,
                         total_reworks |->
                             @.total_reworks + IF e.event_type = "REWORK" THEN 1 ELSE 0,
                         rework_time_total |->
                             @.rework_time_total
                               + IF e.event_type = "REWORK"
                                 THEN e.end_time - e.start_time ELSE 0]]

\* first_pass_rate of EventCollector.get_quality_stats, kept as numerator
\* and denominator; QualityStats.__post_init__ computes the same rate again
\* when it is given 1.0
get_quality_stats(s) ==
    [total_inspections |-> s.stats.total_inspections,
     total_reworks |-> s.stats.total_reworks,
     first_pass_rate |->
         IF s.stats.total_inspections > 0
         THEN [num |-> s.stats.total_inspections - s.stats.total_reworks,
               den |-> s.stats.total_inspections]
         ELSE [num |-> 1, den |-> 1],
     rework_time_total |-> s.stats.rework_time_total]

----------------------------------------------------------------------------
(* TaskExecutor.execute_task, cut at its yields *)

TaskLocals ==
    [pc |-> "none", workers |-> <<>>, rework_count |-> 0, wait_start |-> 0,
     rest_start |-> 0, task_start |-> 0, task_end |-> 0, actual_duration |-> 0,
     pending |-> 0]

\* the deviate numpy's generator yields for draw number n after seeding
SeededDeviate(seed, n) == ((seed + n) % 3) - 1

\* the deviates the next np.random.normal call may return
NextDeviates ==
    IF cfg.random_seed = NoSeed THEN NormalDeviates
    ELSE {SeededDeviate(cfg.random_seed, np_draws)}

\* TaskExecutor._calculate_duration, z being the deviate drawn
calculate_duration(std_duration, variance, z) ==
    IF variance <= 0 THEN std_duration
    ELSE LET actual == std_duration + variance * z
         IN  IF actual > MinDuration THEN actual ELSE MinDuration

\* TaskExecutor._check_rework, x being the value of random.random()
check_rework(rework_prob, x) == x < rework_prob

\* stage 4: the quality check, x being the value of random.random()
\* (variant) without the test of the operation type
needs_rework_any_type(node, x) ==
    node.rework_prob > 0 /\ check_rework(node.rework_prob, x)

needs_rework(node, x) ==
    node.op_type = "M" /\ node.rework_prob > 0
    /\ check_rework(node.rework_prob, x)

\* stage 5: the test of rule B
\* (variant) against the threshold of rule A
needs_load_rest_time_threshold(node) ==
    node.work_load_score > cfg.rest_time_threshold

needs_load_rest(node) == node.work_load_score > cfg.rest_load_threshold

\* (variant) wait_start is not taken again when the loop is re-entered
execute_task_begin_stale(s, u, st) ==
    request_workers([s EXCEPT !.task[u, st].workers = <<>>], u, st)

\* head of the while loop: stage 1, up to the first yield
execute_task_begin(s, u, st) ==
    request_workers([s EXCEPT !.task[u, st].wait_start = s.now,
                              !.task[u, st].workers = <<>>],
                    u, st)

\* stage 3, up to the yield of the work timeout
execute_task_work(s, u, st, z) ==
    LET node == get_node(st)
        d == calculate_duration(node.std_duration, node.time_variance, z)
        s1 == [s EXCEPT !.task[u, st].task_start = s.now,
                        !.task[u, st].actual_duration = d,
                        !.task[u, st].pc = "work",
                        !.np_draws = IF node.time_variance <= 0 THEN @ ELSE @ + 1]
    IN  timeout(s1, d, "task", u, st)

\* (variant) the waiting event is logged whether or not time has passed
execute_task_acquired_always(s, u, st, z) ==
    LET node == get_node(st)
        crit == critical_tools(node.required_tools)
        t == s.task[u, st]
        s1 == add_event(s, GanttEvent(u, st, t.wait_start, s.now,
                                      "WAITING", <<>>, <<>>, 0))
        s2 == log_usage_start_all(s1, crit, 1)
    IN  IF check_workers_need_rest(s2, t.workers, cfg.rest_time_threshold)
        THEN execute_rest(s2, u, st, cfg.rest_duration_time, "restA")
        ELSE execute_task_work(s2, u, st, z)

\* after the acquisitions: waiting event, usage log, stage 2 (rule A)
execute_task_acquired(s, u, st, z) ==
    LET node == get_node(st)
        crit == critical_tools(node.required_tools)
        t == s.task[u, st]
        s1 == IF s.now > t.wait_start
              THEN add_event(s, GanttEvent(u, st, t.wait_start, s.now,
                                           "WAITING", <<>>, <<>>, 0))
              ELSE s
        s2 == log_usage_start_all(s1, crit, 1)
    IN  IF check_workers_need_rest(s2, t.workers, cfg.rest_time_threshold)
        THEN execute_rest(s2, u, st, cfg.rest_duration_time, "restA")
        ELSE execute_task_work(s2, u, st, z)

\* (variant) the requests are made but not awaited
execute_task_equipment_unawaited(s, u, st, z) ==
    execute_task_acquired(
        request_equipment(s, u, st, get_node(st).required_tools, 1, 0), u, st, z)

\* (variant) the all_of is awaited also when no request was made
execute_task_equipment_always(s, u, st, z) ==
    LET node == get_node(st)
        n == Len(critical_tools(node.required_tools))
        s1 == request_equipment(s, u, st, node.required_tools, 1, 0)
        s2 == [s1 EXCEPT !.task[u, st].pc = "equip", !.task[u, st].pending = n]
    IN  IF n > 0 THEN s2
        ELSE schedule(s2, Ev(s2.now, 1, "Condition", "task", u, st, 0))

\* after the workers are held: the equipment requests and their all_of
execute_task_equipment(s, u, st, z) ==
    LET node == get_node(st)
        n == Len(critical_tools(node.required_tools))
        s1 == request_equipment(s, u, st, node.required_tools, 1, 0)
    IN  IF n > 0
        THEN [s1 EXCEPT !.task[u, st].pc = "equip", !.task[u, st].pending = n]
        ELSE execute_task_acquired(s1, u, st, z)

\* request_workers resumed with worker w
execute_task_got_worker(s, u, st, w, z) ==
    LET s1 == [set_state(s, <<w>>, "WORKING") EXCEPT
                   !.task[u, st].workers = Append(@, w)]
    IN  IF Len(s1.task[u, st].workers) < get_node(st).required_workers
        THEN request_workers(s1, u, st)
        ELSE execute_task_equipment(s1, u, st, z)

\* resumed from the rule-A rest
execute_task_rested(s, u, st, z) ==
    LET t == s.task[u, st]
        crit == critical_tools(get_node(st).required_tools)
        s1 == execute_rest_end(s, t.workers, cfg.rest_duration_time)
        s2 == add_event(s1, GanttEvent(u, st, t.rest_start, s.now, "REST",
                                       t.workers, crit, 0))
    IN  execute_task_work(s2, u, st, z)

\* stage 6: release, NORMAL event, and the completion callback
execute_task_release(s, u, st) ==
    LET node == get_node(st)
        crit == critical_tools(node.required_tools)
        t == s.task[u, st]
        s1 == log_usage_end_all(s, crit, 1)
        s2 == release_equipment(s1, u, st, node.required_tools)
        s3 == increment_tasks_completed(s2, t.workers)
        s4 == release_workers(s3, t.workers, 1)
        s5 == add_event(s4, GanttEvent(u, st, t.task_start, t.task_end,
                                       "NORMAL", t.workers, crit, t.rework_count))
    IN  [s5 EXCEPT !.task[u, st].pc = "done",
                   !.engine[u].running = @ \ {st},
                   !.engine[u].completed = @ \cup {st}]

\* resumed from the work timeout: stages 4 and 5
execute_task_worked(s, u, st, x) ==
    LET node == get_node(st)
        crit == critical_tools(node.required_tools)
        t == s.task[u, st]
        s1 == [add_work_time_to_workers(s, t.workers, t.actual_duration)
                  EXCEPT !.task[u, st].task_end = s.now]
    IN  IF needs_rework(node, x)
        THEN LET rc == t.rework_count + 1
                 s2 == add_event(s1, GanttEvent(u, st, t.task_start, s.now,
                                                "REWORK", t.workers, crit, rc))
                 s3 == log_usage_end_all(s2, crit, 1)
                 s4 == release_equipment(s3, u, st, node.required_tools)
                 s5 == release_workers(s4, t.workers, 1)
             IN  execute_task_begin([s5 EXCEPT !.task[u, st].rework_count = rc],
                                    u, st)
        ELSE IF needs_load_rest(node)
             THEN execute_rest(s1, u, st, cfg.rest_duration_load, "restB")
             ELSE execute_task_release(s1, u, st)

\* resumed from the rule-B rest
execute_task_rested_load(s, u, st) ==
    LET t == s.task[u, st]
        crit == critical_tools(get_node(st).required_tools)
        s1 == execute_rest_end(s, t.workers, cfg.rest_duration_load)
        s2 == add_event(s1, GanttEvent(u, st, t.rest_start, s.now, "REST",
                                       t.workers, crit, 0))
    IN  execute_task_release(s2, u, st)

----------------------------------------------------------------------------
(* SimulationEngine: per-engine dispatch loop and the two controllers *)

EngineLocals == [pc |-> "none", completed |-> {}, running |-> {}]

MaxEngines == cfg.target_output + 2

Engines == 1..MaxEngines

\* max_engines of _pipeline_controller
pipeline_max_engines == cfg.target_output + 2

\* (variant) the sequential wrapper gets the slack of the pipeline
single_max_engines_slack == cfg.target_output + 2

\* max_engines of _single_engine_process
single_max_engines == cfg.target_output + 1

\* (variant) the whole duration of the first task
stagger_whole(first_task_duration) == first_task_duration

\* first_task_duration * 0.5, for first tasks of a whole number of tenths
stagger(first_task_duration) == first_task_duration \div 2

RECURSIVE spawn_tasks(_, _, _, _)
spawn_tasks(s, u, ready, i) ==
    IF i > Len(ready) THEN s
    ELSE spawn_tasks(
             process([s EXCEPT !.engine[u].running = @ \cup {ready[i]},
                               !.task[u, ready[i]].pc = "init"],
                     "task", u, ready[i]),
             u, ready, i + 1)

\* SimulationEngine._pipeline_controller, from the loop test to its yield
pipeline_controller(s) ==
    LET first_node == get_node(get_start_nodes[1])
        min_workers_needed == first_node.required_workers
        first_task_duration == first_node.std_duration
        available_workers == get_available_count(s)
    IN  IF s.ctrl.engine_id < pipeline_max_engines
           /\ s.now < cfg.sim_time_minutes
        THEN IF available_workers >= min_workers_needed
             THEN LET id == s.ctrl.engine_id + 1
                      s1 == [s EXCEPT !.ctrl.engine_id = id,
                                      !.ctrl.pc = "wait",
                                      !.engine_start_times[id] = s.now,
                                      !.engine[id].pc = "init"]
                      s2 == process(s1, "engine", id, "")
                  IN  timeout(s2, stagger(first_task_duration), "ctrl", 0, "")
             ELSE timeout([s EXCEPT !.ctrl.pc = "wait"], BackOff, "ctrl", 0, "")
        ELSE [s EXCEPT !.ctrl.pc = "done"]

\* SimulationEngine._engine_process from its loop test on, and, in sequential
\* mode, SimulationEngine._single_engine_process around it
RECURSIVE engine_process(_, _)
engine_process(s, u) ==
    LET e == s.engine[u]
        total_tasks == get_node_count
    IN  IF Cardinality(e.completed) < total_tasks
           /\ s.now < cfg.sim_time_minutes
        THEN LET ready == SelectSeq(get_ready_nodes(e.completed),
                                    LAMBDA id : id \notin e.running)
                 s1 == spawn_tasks(s, u, ready, 1)
             IN  timeout([s1 EXCEPT !.engine[u].pc = "poll"],
                         EngineYield, "engine", u, "")
        ELSE LET s1 == IF Cardinality(e.completed) = total_tasks
                       THEN [s EXCEPT !.engine_end_times[u] = s.now,
                                      !.engines_completed = @ + 1,
                                      !.engine[u].pc = "done"]
                       ELSE [s EXCEPT !.engine[u].pc = "done"]
             IN  IF cfg.pipeline_mode THEN s1
                 ELSE LET id == u + 1
                      IN  IF id <= single_max_engines
                             /\ s1.now < cfg.sim_time_minutes
                          THEN engine_process(
                                   [s1 EXCEPT !.ctrl.engine_id = id,
                                              !.engine_start_times[id] = s1.now],
                                   id)
                          ELSE [s1 EXCEPT !.ctrl.engine_id = id,
                                          !.ctrl.pc = "done"]

\* SimulationEngine._single_engine_process, from its start to the first yield
single_engine_process(s) ==
    IF 1 <= single_max_engines /\ s.now < cfg.sim_time_minutes
    THEN engine_process([s EXCEPT !.ctrl.engine_id = 1, !.ctrl.pc = "wait",
                                  !.engine_start_times[1] = s.now],
                        1)
    ELSE [s EXCEPT !.ctrl.pc = "done"]

----------------------------------------------------------------------------
(* SimulationEngine: the result of run() *)

\* a / b if b > 0 else 0, kept as numerator and denominator
Ratio(a, b) == IF b > 0 THEN [num |-> a, den |-> b] ELSE [num |-> 0, den |-> 1]

\* SimulationEngine._create_failed_result: error_message is not stored in
\* the result, whose lists keep their empty defaults
create_failed_result(error_message) ==
    [sim_id |-> "uuid", status |-> "FAILED", sim_duration |-> 0,
     engines_completed |-> 0, worker_stats |-> <<>>, equipment_stats |-> <<>>,
     gantt_events |-> <<>>, created_at |-> "isoformat", completed_at |-> ""]

\* the ResourceUtilization of one worker in _collect_results
worker_stat(s, w) ==
    LET sim_duration == s.now
        worker == s.workers[w]
    IN  [resource_id |-> w, total_time |-> sim_duration,
         work_time |-> worker.total_work_time,
         rest_time |-> worker.total_rest_time,
         idle_time |-> sim_duration - worker.total_work_time
                         - worker.total_rest_time,
         utilization_rate |-> Ratio(worker.total_work_time, sim_duration),
         tasks_completed |-> worker.tasks_completed]

\* the usage time get_equipment_utilization takes from one logged interval:
\* an interval whose end is not positive counts as still in use
usage_time_of(s, interval) ==
    IF interval[2] > 0 THEN interval[2] - interval[1]
    ELSE s.now - interval[1]

\* EquipmentManager.get_equipment_utilization, for one equipment
get_equipment_utilization(s, e, total_time) ==
    LET logs == s.usage_log[e]
        usage_time == SumSeq([i \in 1..Len(logs) |-> usage_time_of(s, logs[i])])
    IN  Ratio(usage_time, total_time * capacity(e))

\* EquipmentManager.get_equipment_stats, for one critical equipment
get_equipment_stats(s, e, total_time) ==
    LET logs == s.usage_log[e]
        closed == SelectSeq(logs, LAMBDA interval : interval[2] > 0)
        usage_time == SumSeq([i \in 1..Len(closed) |-> closed[i][2] - closed[i][1]])
    IN  [equipment_name |-> e, capacity |-> capacity(e),
         total_time |-> total_time * capacity(e), work_time |-> usage_time,
         idle_time |-> total_time * capacity(e) - usage_time,
         utilization_rate |-> get_equipment_utilization(s, e, total_time),
         tasks_served |-> Len(closed)]

\* avg_cycle_time of _collect_results: the mean of end - start over the
\* engines that have an end time, 0 if there is none
avg_cycle_time(s) ==
    LET ended == {u \in DOMAIN s.engine_end_times : s.engine_end_times[u] # Unset}
        cycle_times == [u \in ended |->
                           s.engine_end_times[u] - s.engine_start_times[u]]
        RECURSIVE Sum(_)
        Sum(S) == IF S = {} THEN 0
                  ELSE LET u == CHOOSE v \in S : TRUE
                       IN  cycle_times[u] + Sum(S \ {u})
    IN  Ratio(Sum(ended), Cardinality(ended))

\* SimulationEngine._collect_results
collect_results(s) ==
    LET sim_duration == s.now
    IN  [sim_id |-> "uuid", status |-> "COMPLETED", sim_duration |-> sim_duration,
         engines_completed |-> s.engines_completed,
         worker_stats |-> [w \in WorkerIds |-> worker_stat(s, w)],
         equipment_stats |-> [e \in Critical |->
                                 get_equipment_stats(s, e, sim_duration)],
         gantt_events |-> s.events,
         created_at |-> "isoformat", completed_at |-> "isoformat"]

----------------------------------------------------------------------------
(* SimulationEngine._apply_station_constraints *)

\* all_stations
all_stations(ns) == {ns[i].station : i \in 1..Len(ns)} \ {""}

\* config.add_equipment(station, 1) for every station the equipment manager
\* does not manage yet
station_equipment(equip, ns) ==
    [e \in DOMAIN equip \cup all_stations(ns) |->
        IF e \in DOMAIN equip THEN equip[e] ELSE 1]

\* (variant) the station is not added to the tools of its tasks
station_tools_unchanged(node) == node.required_tools

\* the required_tools of a node after the second loop
station_tools(node) ==
    IF node.station # "" /\ node.station \notin SetOfSeq(node.required_tools)
    THEN Append(node.required_tools, node.station)
    ELSE node.required_tools

station_nodes(ns) ==
    [i \in 1..Len(ns) |-> [ns[i] EXCEPT !.required_tools = station_tools(ns[i])]]

\* a dict of the equipment manager after add_dynamic_equipment of the
\* stations it does not manage yet
with_stations(dict, ns, empty) ==
    [e \in DOMAIN dict \cup all_stations(ns) |->
        IF e \in DOMAIN dict THEN dict[e] ELSE empty]

\* EquipmentManager.add_dynamic_equipment, for every new station
add_dynamic_equipment(s, ns) ==
    [s EXCEPT !.users = with_stations(@, ns, <<>>),
              !.put_queue = with_stations(@, ns, <<>>),
              !.usage_log = with_stations(@, ns, <<>>),
              !.current_usage = with_stations(@, ns, 0)]

----------------------------------------------------------------------------
(* State of a run *)

\* the mutable state handed through the code of one scheduler step
cur ==
    [now |-> now, queue |-> queue, workers |-> workers, items |-> items,
     get_queue |-> get_queue, users |-> users, put_queue |-> put_queue,
     usage_log |-> usage_log, current_usage |-> current_usage,
     unlimited_equipment_usage |-> unlimited_equipment_usage,
     unlimited_equipment_count |-> unlimited_equipment_count,
     events |-> events, stats |-> stats, task |-> task, engine |-> engine,
     ctrl |-> ctrl, engines_completed |-> engines_completed,
     engine_start_times |-> engine_start_times,
     engine_end_times |-> engine_end_times, np_draws |-> np_draws]

Commit(s) ==
    /\ now' = s.now
    /\ queue' = s.queue
    /\ workers' = s.workers
    /\ items' = s.items
    /\ get_queue' = s.get_queue
    /\ users' = s.users
    /\ put_queue' = s.put_queue
    /\ usage_log' = s.usage_log
    /\ current_usage' = s.current_usage
    /\ unlimited_equipment_usage' = s.unlimited_equipment_usage
    /\ unlimited_equipment_count' = s.unlimited_equipment_count
    /\ events' = s.events
    /\ stats' = s.stats
    /\ task' = s.task
    /\ engine' = s.engine
    /\ ctrl' = s.ctrl
    /\ engines_completed' = s.engines_completed
    /\ engine_start_times' = s.engine_start_times
    /\ engine_end_times' = s.engine_end_times
    /\ np_draws' = s.np_draws

\* WorkerPool.__init__: every worker is put into the store
RECURSIVE put_workers(_, _, _)
put_workers(s, i, n) ==
    IF i > n THEN s ELSE put_workers(store_put(s, i), i + 1, n)

\* SimulationEngine.__init__ and the first lines of run(): the environment
\* and the components are built
Built(c, ns) ==
    LET ids == {ns[i].step_id : i \in 1..Len(ns)}
        crit == DOMAIN c.critical_equipment
        tools == UNION {SetOfSeq(ns[i].required_tools) : i \in 1..Len(ns)} \ crit
        engs == 1..(c.target_output + 2)
    IN  put_workers(
        [now |-> 0,
         queue |-> <<>>,
         workers |-> [w \in 1..c.num_workers |-> WorkerAgent],
         items |-> <<>>,
         get_queue |-> <<>>,
         users |-> [e \in crit |-> <<>>],
         put_queue |-> [e \in crit |-> <<>>],
         usage_log |-> [e \in crit |-> <<>>],
         current_usage |-> [e \in crit |-> 0],
         unlimited_equipment_usage |-> [e \in tools |-> <<>>],
         unlimited_equipment_count |-> [e \in tools |-> 0],
         events |-> <<>>,
         stats |-> [total_inspections |-> 0, total_reworks |-> 0,
                    rework_time_total |-> 0],
         task |-> [x \in engs \X ids |-> TaskLocals],
         engine |-> [u \in engs |-> EngineLocals],
         ctrl |-> [pc |-> "init", engine_id |-> 0],
         engines_completed |-> 0,
         engine_start_times |-> [u \in engs |-> Unset],
         engine_end_times |-> [u \in engs |-> Unset],
         np_draws |-> 0],
        1, c.num_workers)

\* no run() has returned yet
NoResult == [status |-> "NONE"]

InitWith(requests) ==
    /\ \E sc \in requests :
          /\ cfg = sc.cfg
          /\ nodes = sc.nodes
          /\ LET s == Built(sc.cfg, sc.nodes)
             IN  /\ now = s.now
                 /\ queue = s.queue
                 /\ workers = s.workers
                 /\ items = s.items
                 /\ get_queue = s.get_queue
                 /\ users = s.users
                 /\ put_queue = s.put_queue
                 /\ usage_log = s.usage_log
                 /\ current_usage = s.current_usage
                 /\ unlimited_equipment_usage = s.unlimited_equipment_usage
                 /\ unlimited_equipment_count = s.unlimited_equipment_count
                 /\ events = s.events
                 /\ stats = s.stats
                 /\ task = s.task
                 /\ engine = s.engine
                 /\ ctrl = s.ctrl
                 /\ engines_completed = s.engines_completed
                 /\ engine_start_times = s.engine_start_times
                 /\ engine_end_times = s.engine_end_times
                 /\ np_draws = s.np_draws
    /\ phase = "created"
    /\ result = NoResult
    /\ run = 1
    /\ result1 = [engines_completed |-> Unset, total_reworks |-> Unset]

Init == InitWith(Scenarios)

InitUnvalidated == InitWith(Scenarios \cup Unvalidated)

InitCompare == InitWith(Scenarios \cup FullHour)

InitBoundary == InitWith(Scenarios \cup SingleTask)

InitNoRest == InitWith(Scenarios \cup WithoutRest)

----------------------------------------------------------------------------
(* Scheduler steps *)

\* (variant) the run has no until event
CanStep_unbounded == phase = "running" /\ queue # <<>>

\* env.step() has an event to process before the until event of run()
CanStep == phase = "running" /\ queue # <<>> /\ Head(queue).t < cfg.sim_time_minutes

\* the run is followed while its event log is short enough
Followed == Len(events) < MaxEvents

head == Head(queue)

\* env.step(): the clock moves to the event and the event leaves the queue
popped == [cur EXCEPT !.now = head.t, !.queue = Tail(queue)]

Frame == UNCHANGED <<cfg, nodes, phase, result, run, result1>>

IsHead(kind, pk) == CanStep /\ Followed /\ head.kind = kind /\ head.pk = pk

IsTaskTimeout(pc) ==
    /\ IsHead("Timeout", "task")
    /\ task[head.u, head.st].pc = pc

\* run(), from the validation to the creation of the controller process
Run ==
    /\ phase = "created"
    /\ IF validate # "ok"
       THEN /\ phase' = "failed"
            /\ result' = create_failed_result(validate)
            /\ Commit(cur)
            /\ UNCHANGED <<cfg, nodes>>
       ELSE /\ phase' = "running"
            /\ result' = result
            /\ IF cfg.station_constraint_mode
               THEN /\ cfg' = [cfg EXCEPT !.critical_equipment =
                                   station_equipment(@, nodes)]
                    /\ nodes' = station_nodes(nodes)
                    /\ Commit(process(add_dynamic_equipment(cur, nodes),
                                      "ctrl", 0, ""))
               ELSE /\ UNCHANGED <<cfg, nodes>>
                    /\ Commit(process(cur, "ctrl", 0, ""))
    /\ UNCHANGED <<run, result1>>

\* the controller process starts
ControllerStart ==
    /\ IsHead("Initialize", "ctrl")
    /\ Commit(IF cfg.pipeline_mode THEN pipeline_controller(popped)
              ELSE single_engine_process(popped))
    /\ Frame

\* the pipeline controller wakes from its stagger or back-off sleep
ControllerWake ==
    /\ IsHead("Timeout", "ctrl")
    /\ Commit(pipeline_controller(popped))
    /\ Frame

\* an engine process of the pipeline starts
EngineStart ==
    /\ IsHead("Initialize", "engine")
    /\ Commit(engine_process(popped, head.u))
    /\ Frame

\* an engine's dispatch loop wakes from its yield
EnginePoll ==
    /\ IsHead("Timeout", "engine")
    /\ Commit(engine_process(popped, head.u))
    /\ Frame

\* a task executor starts
TaskStart ==
    /\ IsHead("Initialize", "task")
    /\ Commit(execute_task_begin(popped, head.u, head.st))
    /\ Frame

\* a store get is processed: its requester resumes with the worker
WorkerGranted ==
    /\ IsHead("StoreGet", "task")
    /\ \E z \in NextDeviates :
          Commit(execute_task_got_worker(popped, head.u, head.st, head.val, z))
    /\ Frame

\* a store put is processed: the pending gets are looked at
WorkerReturned ==
    /\ IsHead("StorePut", "store")
    /\ Commit(store_trigger_get(popped, 1))
    /\ Frame

\* a granted equipment request is processed: the all_of of its task counts it
EquipmentGranted ==
    /\ IsHead("Request", "task")
    /\ LET s1 == [popped EXCEPT !.task[head.u, head.st].pending = @ - 1]
       IN  Commit(IF s1.task[head.u, head.st].pending = 0
                  THEN schedule(s1, Ev(s1.now, 1, "Condition", "task",
                                       head.u, head.st, 0))
                  ELSE s1)
    /\ Frame

\* the all_of of a task is processed: the task holds all its equipment
EquipmentAcquired ==
    /\ IsHead("Condition", "task")
    /\ \E z \in NextDeviates :
          Commit(execute_task_acquired(popped, head.u, head.st, z))
    /\ Frame

\* an equipment release is processed: the next waiter is looked at
EquipmentReleased ==
    /\ IsHead("Release", "equip")
    /\ Commit(resource_trigger_put(popped, head.val))
    /\ Frame

\* the rule-A rest of a task is over
RestTimeOver ==
    /\ IsTaskTimeout("restA")
    /\ \E z \in NextDeviates :
          Commit(execute_task_rested(popped, head.u, head.st, z))
    /\ Frame

\* the work of a task is over
WorkOver ==
    /\ IsTaskTimeout("work")
    /\ \E x \in UniformDeviates :
          Commit(execute_task_worked(popped, head.u, head.st, x))
    /\ Frame

\* the rule-B rest of a task is over
RestLoadOver ==
    /\ IsTaskTimeout("restB")
    /\ Commit(execute_task_rested_load(popped, head.u, head.st))
    /\ Frame

\* env.run(until=T) returns: the clock is at T, pending events are dropped;
\* then _collect_results
Stop ==
    /\ phase = "running"
    /\ ~CanStep
    /\ phase' = "done"
    /\ now' = cfg.sim_time_minutes
    /\ result' = collect_results([cur EXCEPT !.now = cfg.sim_time_minutes])
    /\ UNCHANGED <<cfg, nodes, queue, workers, items, get_queue, users,
                   put_queue, usage_log, current_usage,
                   unlimited_equipment_usage, unlimited_equipment_count,
                   events, stats, task, engine, ctrl, engines_completed,
                   engine_start_times, engine_end_times, np_draws, run, result1>>

Next ==
    \/ Run
    \/ ControllerStart
    \/ ControllerWake
    \/ EngineStart
    \/ EnginePoll
    \/ TaskStart
    \/ WorkerGranted
    \/ WorkerReturned
    \/ EquipmentGranted
    \/ EquipmentAcquired
    \/ EquipmentReleased
    \/ RestTimeOver
    \/ WorkOver
    \/ RestLoadOver
    \/ Stop

Spec == Init /\ [][Next]_vars

\* a second run() of a fresh SimulationEngine on the same configuration and
\* process, in the same interpreter: numpy's generator is seeded again by
\* __init__, everything else is rebuilt
SecondRun ==
    /\ phase = "done"
    /\ run = 1
    /\ run' = 2
    /\ result1' = [engines_completed |-> engines_completed,
                   total_reworks |-> stats.total_reworks]
    /\ phase' = "created"
    /\ result' = NoResult
    /\ Commit(Built(cfg, nodes))
    /\ UNCHANGED <<cfg, nodes>>

NextRepeat == Next \/ SecondRun

SpecRepeat == Init /\ [][NextRepeat]_vars

\* after a sequential run, a run() of a fresh SimulationEngine on the same
\* process and on a configuration that differs in pipeline_mode alone
PipelineRun ==
    /\ phase = "done"
    /\ run = 1
    /\ ~cfg.pipeline_mode
    /\ run' = 2
    /\ result1' = [engines_completed |-> engines_completed,
                   total_reworks |-> stats.total_reworks]
    /\ phase' = "created"
    /\ result' = NoResult
    /\ cfg' = [cfg EXCEPT !.pipeline_mode = TRUE]
    /\ Commit(Built(cfg', nodes))
    /\ UNCHANGED nodes

NextCompare == Next \/ PipelineRun

SpecCompare == InitCompare /\ [][NextCompare]_vars

\* runs on the literal boundary scenario as well
SpecBoundary == InitBoundary /\ [][Next]_vars

\* runs of SimulationEngine and of SimulationEngineNoRest
SpecNoRest == InitNoRest /\ [][Next]_vars

\* runs on every request, those of Unvalidated included
SpecUnvalidated == InitUnvalidated /\ [][Next]_vars

----------------------------------------------------------------------------
(* Vocabulary of the properties *)

TaskIds == Engines \X StepIds

\* the task execution is between its acquisition and its release
Acquired(x) == task[x].pc \in {"restA", "work", "restB"}

\* the task execution is somewhere inside execute_task
Executing(x) == task[x].pc \in {"get", "equip", "restA", "work", "restB"}

\* the task execution waits in request_workers for a get that is pending
Blocked(x) ==
    /\ task[x].pc = "get"
    /\ \E i \in 1..Len(get_queue) : <<get_queue[i].u, get_queue[i].st>> = x

EventsOf(type) == {i \in 1..Len(events) : events[i].event_type = type}

Overlap(a, b) == a.start_time < b.end_time /\ b.start_time < a.end_time

----------------------------------------------------------------------------
(* C1: in every reachable state, every critical equipment E has at most    *)
(* c(E) holders: resource users, task executions between acquisition and   *)
(* release that need E, and the manager's own usage counter.               *)

HoldersOf(e) ==
    {x \in TaskIds : Acquired(x)
                     /\ e \in SetOfSeq(get_node(x[2]).required_tools)}

C1_CapacityRespected ==
    \A e \in Critical :
        /\ Len(users[e]) <= cfg.critical_equipment[e]
        /\ Cardinality(HoldersOf(e)) <= cfg.critical_equipment[e]
        /\ current_usage[e] <= cfg.critical_equipment[e]

\* an equipment of capacity 2 is fully held by two executions, a third waits
C1_Witness ==
    \E e \in Critical :
        /\ cfg.critical_equipment[e] = 2
        /\ Cardinality(HoldersOf(e)) = 2
        /\ put_queue[e] # <<>>

----------------------------------------------------------------------------
(* C2: every worker is in one place only: in the store, on its way to one  *)
(* requester, or held by one task execution (rests included); and the      *)
(* NORMAL, REWORK and REST intervals that list the same worker never       *)
(* overlap.                                                                *)

HoldingTasks(w) == {x \in TaskIds : Executing(x) /\ w \in SetOfSeq(task[x].workers)}

InStore(w) == Cardinality({i \in 1..Len(items) : items[i] = w})

OnItsWay(w) ==
    Cardinality({i \in 1..Len(queue) :
                    queue[i].kind = "StoreGet" /\ queue[i].val = w})

WorkerEvents == EventsOf("NORMAL") \cup EventsOf("REWORK") \cup EventsOf("REST")

C2_WorkerHeldOnce ==
    /\ \A w \in WorkerIds :
          Cardinality(HoldingTasks(w)) + InStore(w) + OnItsWay(w) <= 1
    /\ \A i, j \in WorkerEvents :
          (i < j /\ SetOfSeq(events[i].worker_ids)
                      \cap SetOfSeq(events[j].worker_ids) # {})
          => ~Overlap(events[i], events[j])

\* a crew rests while another task execution is blocked waiting for a worker
C2_Witness ==
    /\ \E x \in TaskIds : task[x].pc \in {"restA", "restB"}
                          /\ cfg.rest_duration_load > 0
    /\ \E y \in TaskIds : Blocked(y)
    /\ \E i, j \in WorkerEvents :
          i < j /\ SetOfSeq(events[i].worker_ids)
                     \cap SetOfSeq(events[j].worker_ids) # {}

----------------------------------------------------------------------------
(* C3: DAG respect: every NORMAL event on task t of engine u starts no     *)
(* earlier than the end of a NORMAL event of u on each predecessor of t.   *)

----------------------------------------------------------------------------
(* C4: acquire(count) is all-or-nothing: an acquirer that is still blocked *)
(* holds no worker, and past the acquisition the caller holds exactly      *)
(* `count` distinct workers, none of them idle.                            *)

C4_AcquireAllOrNothing ==
    /\ \A x \in TaskIds : Blocked(x) => task[x].workers = <<>>
    /\ \A x \in TaskIds :
          (task[x].pc = "equip" \/ Acquired(x))
          => /\ Len(task[x].workers) = get_node(x[2]).required_workers
             /\ Cardinality(SetOfSeq(task[x].workers)) = Len(task[x].workers)
             /\ \A w \in SetOfSeq(task[x].workers) : workers[w].state # "IDLE"

----------------------------------------------------------------------------
(* C5: concurrent acquirers never deadlock: when no task asks for more     *)
(* workers than the pool contains, the run never reaches a state in which  *)
(* acquirers are blocked while every worker of the pool is held by a       *)
(* blocked acquirer (from such a state no request can ever be granted).    *)

WorkerDeadlock ==
    /\ \E x \in TaskIds : Blocked(x)
    /\ \A w \in WorkerIds :
          \E x \in TaskIds : Blocked(x) /\ w \in SetOfSeq(task[x].workers)

C5_NoWorkerDeadlock ==
    (\A i \in 1..Len(nodes) : nodes[i].required_workers <= cfg.num_workers)
    => ~WorkerDeadlock

----------------------------------------------------------------------------
(* C6: event log monotonicity: of two events appended by the same task     *)
(* execution, the one appended first has the smaller or equal start_time.  *)

SameExecution(i, j) ==
    /\ events[i].engine_id = events[j].engine_id
    /\ events[i].step_id = events[j].step_id

----------------------------------------------------------------------------
(* C7: rework law: the rework_count of a NORMAL event on (u, t) is the     *)
(* number of REWORK events on (u, t); only tasks of op_type M have REWORK  *)
(* events, whatever their rework probability.                              *)

ReworksOf(u, st) ==
    {i \in EventsOf("REWORK") : events[i].engine_id = u /\ events[i].step_id = st}

C7_ReworkLaw ==
    /\ \A i \in EventsOf("NORMAL") :
          events[i].rework_count
            = Cardinality(ReworksOf(events[i].engine_id, events[i].step_id))
    /\ \A i \in EventsOf("REWORK") : events[i].op_type = "M"

\* a reworked measurement has completed, and so has a task that is no
\* measurement but has a positive rework probability
C7_Witness ==
    /\ \E i \in EventsOf("NORMAL") : events[i].rework_count >= 1
    /\ \E i \in EventsOf("NORMAL") :
          /\ events[i].op_type # "M"
          /\ get_node(events[i].step_id).rework_prob > 0

----------------------------------------------------------------------------
(* C8: rest rule A: while a task execution works, either a time-triggered  *)
(* rest ended when the work started and every worker of the crew has       *)
(* consecutive_work_time 0, or no worker of the crew had reached the       *)
(* threshold; in both cases consecutive_work_time <= rest_time_threshold.  *)

RestedBeforeWork(x) ==
    \E i \in EventsOf("REST") :
        /\ events[i].engine_id = x[1] /\ events[i].step_id = x[2]
        /\ events[i].worker_ids = task[x].workers
        /\ events[i].end_time = task[x].task_start
        /\ events[i].start_time >= task[x].wait_start
        /\ events[i].end_time - events[i].start_time = cfg.rest_duration_time

C8_RestRuleA ==
    \A x \in TaskIds :
        task[x].pc = "work"
        => /\ \A w \in SetOfSeq(task[x].workers) :
                 workers[w].consecutive_work_time <= cfg.rest_time_threshold
           /\ \/ /\ RestedBeforeWork(x)
                 /\ \A w \in SetOfSeq(task[x].workers) :
                       workers[w].consecutive_work_time = 0
              \/ /\ ~RestedBeforeWork(x)
                 /\ \A w \in SetOfSeq(task[x].workers) :
                       workers[w].consecutive_work_time < cfg.rest_time_threshold

\* a crew works after a time-triggered rest that its accumulated work caused
C8_Witness ==
    \E x \in TaskIds :
        /\ task[x].pc = "work"
        /\ RestedBeforeWork(x)
        /\ cfg.rest_time_threshold > 0
        /\ \E w \in SetOfSeq(task[x].workers) : workers[w].total_work_time > 0

----------------------------------------------------------------------------
(* C9: rest rule B: the NORMAL event of a task whose work_load_score       *)
(* exceeds rest_load_threshold comes with a REST event of the same task    *)
(* instance on the same workers that starts at the NORMAL event's end and  *)
(* lasts exactly rest_duration_load.                                       *)

C9_RestRuleB ==
    \A i \in EventsOf("NORMAL") :
        get_node(events[i].step_id).work_load_score > cfg.rest_load_threshold
        => \E j \in EventsOf("REST") :
              /\ SameExecution(i, j)
              /\ events[j].worker_ids = events[i].worker_ids
              /\ events[j].start_time = events[i].end_time
              /\ events[j].end_time - events[j].start_time = cfg.rest_duration_load

\* a heavy task has completed under a configuration whose two rest
\* durations differ
C9_Witness ==
    /\ cfg.rest_duration_load # cfg.rest_duration_time
    /\ cfg.rest_duration_load > 0
    /\ \E i \in EventsOf("NORMAL") :
          get_node(events[i].step_id).work_load_score > cfg.rest_load_threshold

----------------------------------------------------------------------------
(* C10: determinism: a second run on the same configuration, process and   *)
(* seed ends with the counters of the first run: the same                  *)
(* engines_completed and the same number of REWORK events.                 *)

C10_SeededRunsAgree ==
    (run = 2 /\ phase = "done" /\ cfg.random_seed # NoSeed)
    => /\ engines_completed = result1.engines_completed
       /\ stats.total_reworks = result1.total_reworks

----------------------------------------------------------------------------
(* C11: at the end of every successful run the result accounts for the     *)
(* whole duration of every worker: work_time + rest_time + idle_time is    *)
(* sim_duration, none of the three is negative, and the utilization rate   *)
(* lies between 0 and 1.                                                   *)

C11_WorkerTimeAccounts ==
    (phase = "done" /\ result.status = "COMPLETED")
    => \A w \in WorkerIds :
          LET r == result.worker_stats[w]
          IN  /\ r.work_time + r.rest_time + r.idle_time = result.sim_duration
              /\ r.work_time = workers[w].total_work_time
              /\ r.rest_time = workers[w].total_rest_time
              /\ r.work_time >= 0 /\ r.rest_time >= 0 /\ r.idle_time >= 0
              /\ 0 <= r.utilization_rate.num
              /\ r.utilization_rate.num <= r.utilization_rate.den

\* a run has ended with a worker that worked, rested and idled, and with a
\* worker that was busy for all but a tenth of the duration
C11_Witness ==
    /\ phase = "done"
    /\ \E w \in WorkerIds :
          /\ result.worker_stats[w].work_time > 0
          /\ result.worker_stats[w].rest_time > 0
          /\ result.worker_stats[w].idle_time > 0
    /\ \E w \in WorkerIds : 10 * result.worker_stats[w].idle_time <= result.sim_duration

----------------------------------------------------------------------------
(* C12: at the end of every run, the usage intervals logged for a critical *)
(* equipment E add up to at most capacity(E) * sim_duration, and the       *)
(* utilisation reported for E is at most 1.                                *)

\* sum of (end - start) over the closed intervals of E's usage log, an open
\* interval lasting to the end of the run
LoggedUsage(e) ==
    SumSeq([i \in 1..Len(usage_log[e]) |->
               IF usage_log[e][i][2] = -1 THEN now - usage_log[e][i][1]
               ELSE usage_log[e][i][2] - usage_log[e][i][1]])

C12_EquipmentUtilisationAtMostOne ==
    (phase = "done" /\ result.status = "COMPLETED")
    => \A e \in Critical :
          /\ LoggedUsage(e) <= cfg.critical_equipment[e] * result.sim_duration
          /\ result.equipment_stats[e].utilization_rate.num
               <= result.equipment_stats[e].utilization_rate.den

----------------------------------------------------------------------------
(* C13: when the process graph is invalid (the empty process included),    *)
(* run() returns a result with status FAILED that carries the diagnosis,   *)
(* with an empty event log and engines_completed = 0; no worker or         *)
(* equipment has been active and no process has been created.              *)

\* the texts a result carries
TextsOf(r) == {r.sim_id, r.status, r.created_at, r.completed_at}

\* nothing has happened in the run: the clock is at 0, the log is empty,
\* every worker is idle in the store, no equipment is requested or in use,
\* no process exists and no event has been processed
NothingRan ==
    /\ now = 0 /\ events = <<>> /\ engines_completed = 0
    /\ \A w \in WorkerIds : workers[w] = WorkerAgent /\ InStore(w) = 1
    /\ get_queue = <<>>
    /\ \A e \in Critical :
          users[e] = <<>> /\ put_queue[e] = <<>> /\ usage_log[e] = <<>>
    /\ ctrl.pc = "init"
    /\ \A u \in Engines : engine[u] = EngineLocals
    /\ \A i \in 1..Len(queue) : queue[i].kind = "StorePut"
    /\ Len(queue) = cfg.num_workers

\* the failed result but for the diagnosis
FailedResult ==
    /\ phase = "failed"
    /\ result.status = "FAILED"
    /\ result.gantt_events = <<>>
    /\ result.engines_completed = 0
    /\ result.worker_stats = <<>> /\ result.equipment_stats = <<>>
    /\ NothingRan

C13_InvalidGraphFails ==
    (phase # "created" /\ validate # "ok")
    => /\ FailedResult
       /\ validate \in TextsOf(result)

----------------------------------------------------------------------------
(* C14: the validity check rejects every process whose predecessor         *)
(* relation has a cycle (a task naming itself included) and every process  *)
(* in which a task names a predecessor that is no defined step: run() on   *)
(* such a process fails and nothing of it is run.                          *)

\* the steps a step names as predecessors
DeclaredPredecessors(id) == get_node(id).predecessors

\* the steps reached from S along at most n declared predecessor links
RECURSIVE AncestorsOf(_, _)
AncestorsOf(S, n) ==
    IF n = 0 THEN S
    ELSE AncestorsOf(
             S \cup UNION {DeclaredPredecessors(x) \cap StepIds : x \in S},
             n - 1)

HasCycle ==
    \E id \in StepIds :
        id \in AncestorsOf(DeclaredPredecessors(id) \cap StepIds, Len(nodes))

MissingPredecessor ==
    \E id \in StepIds : ~(DeclaredPredecessors(id) \subseteq StepIds)

C14_ValidityRejects ==
    ((HasCycle \/ MissingPredecessor) /\ phase # "created")
    => /\ validate # "ok"
       /\ phase = "failed"

----------------------------------------------------------------------------
(* C15: when a task requires more workers than the pool contains, the run  *)
(* is reported as an error: run() returns a failed result with an empty    *)
(* event log, and nothing has run.                                         *)

Infeasible ==
    \E i \in 1..Len(nodes) : nodes[i].required_workers > cfg.num_workers

C15_InfeasibleCrewFails ==
    (Infeasible /\ phase # "created") => FailedResult

----------------------------------------------------------------------------
(* C16: every event of the log satisfies 0 <= start_time <= end_time <= T; *)
(* an activity (acquisition, work or rest) that is suspended has no event: *)
(* every event of its task execution ended before the activity began, also *)
(* when the clock has reached T; and the run that T cuts short returns a   *)
(* result that is not failed, with the log as it stands.                   *)

\* the time at which the suspended activity of a task execution began
SuspendedSince(x) ==
    CASE task[x].pc \in {"get", "equip"} -> task[x].wait_start
      [] task[x].pc \in {"restA", "restB"} -> task[x].rest_start
      [] OTHER -> task[x].task_start

C16_EventsWithinBudget ==
    /\ \A i \in 1..Len(events) :
          /\ 0 <= events[i].start_time
          /\ events[i].start_time <= events[i].end_time
          /\ events[i].end_time <= cfg.sim_time_minutes
          /\ events[i].end_time <= now
    /\ \A x \in TaskIds :
          Executing(x)
          => \A i \in 1..Len(events) :
                (events[i].engine_id = x[1] /\ events[i].step_id = x[2])
                => events[i].end_time <= SuspendedSince(x)
    /\ phase = "done"
       => /\ result.status = "COMPLETED"
          /\ result.sim_duration = cfg.sim_time_minutes
          /\ result.gantt_events = events
          /\ now = cfg.sim_time_minutes

\* T was too small to finish a single engine: the run has ended with no
\* engine completed and a task cut off in its work, and the log holds the
\* events that came before
C16_Witness ==
    /\ phase = "done"
    /\ result.engines_completed = 0
    /\ \A u \in Engines : engine[u].completed # StepIds
    /\ \E x \in TaskIds : task[x].pc = "work" /\ now > task[x].task_start
    /\ Len(result.gantt_events) > 0
    /\ cfg.sim_time_minutes
         < SumSeq([i \in 1..Len(nodes) |-> nodes[i].std_duration])

----------------------------------------------------------------------------
(* C17: for every process that passes the validation of run(), run()       *)
(* terminates: no unbounded sequence of steps happens at one virtual time,  *)
(* also when a task keeps being reworked, so that no two work periods of   *)
(* one task end at the same virtual time, and the result of a finished run  *)
(* is a successful one with sim_duration = T.                               *)

WorkEvents == EventsOf("NORMAL") \cup EventsOf("REWORK")

SameTask(i, j) ==
    /\ events[i].engine_id = events[j].engine_id
    /\ events[i].step_id = events[j].step_id

C17_RunTerminates ==
    (validate = "ok")
    => /\ \A i, j \in WorkEvents :
               (i < j /\ SameTask(i, j))
               => events[i].end_time < events[j].end_time
       /\ phase = "done" => /\ result.status = "COMPLETED"
                            /\ result.sim_duration = cfg.sim_time_minutes

----------------------------------------------------------------------------
(* C18: at the end of a run, engines_completed is the number of engines    *)
(* that are done, an engine being done when every task of the graph has    *)
(* appended a NORMAL event for it.                                         *)

DoneEngines ==
    {u \in Engines :
        \A st \in StepIds :
            \E i \in EventsOf("NORMAL") :
                events[i].engine_id = u /\ events[i].step_id = st}

C18_CompletedCountsDone ==
    (phase = "done" /\ result.status = "COMPLETED")
    => result.engines_completed = Cardinality(DoneEngines)

----------------------------------------------------------------------------
(* C19: the engines ever started number at most target_output + 2 in       *)
(* pipeline mode and target_output + 1 in sequential mode, none is started *)
(* at a time >= T, and engines_completed stays within the same bound.      *)

StartedEngines == {u \in Engines : engine_start_times[u] # Unset}

StartBound ==
    IF cfg.pipeline_mode THEN cfg.target_output + 2
    ELSE cfg.target_output + 1

C19_StartedEnginesBounded ==
    /\ Cardinality(StartedEngines) <= StartBound
    /\ \A u \in StartedEngines : engine_start_times[u] < cfg.sim_time_minutes
    /\ engines_completed <= StartBound
    /\ phase = "done" => result.engines_completed <= StartBound

\* a sequential run that started and completed target_output + 1 engines
C19_Witness ==
    /\ ~cfg.pipeline_mode
    /\ phase = "done"
    /\ Cardinality(StartedEngines) = StartBound
    /\ result.engines_completed = StartBound

----------------------------------------------------------------------------
(* C20: in pipeline mode the controller starts an engine only at a check   *)
(* where the number of idle workers is at least required_workers of the    *)
(* first start task, and two consecutive engine start times differ by half *)
(* the nominal duration of that task plus a whole number of 10-minute      *)
(* back-offs.                                                              *)

FirstStartTask == get_node(get_start_nodes[1])

IdleWorkers == Cardinality({w \in WorkerIds : workers[w].state = "IDLE"})

Admitted(u) ==
    /\ cfg.pipeline_mode
    /\ engine_start_times[u] = Unset
    /\ engine_start_times'[u] # Unset

StartGap(u) == engine_start_times[u + 1] - engine_start_times[u]

C20_PipelineAdmission ==
    /\ [][\A u \in Engines :
            Admitted(u) => /\ IdleWorkers >= FirstStartTask.required_workers
                           /\ engine_start_times'[u] = now']_vars
    /\ [](cfg.pipeline_mode =>
            \A u \in Engines :
                (u + 1 \in StartedEngines /\ u \in StartedEngines)
                => /\ StartGap(u) >= FirstStartTask.std_duration \div 2
                   /\ (StartGap(u) - FirstStartTask.std_duration \div 2)
                          % BackOff = 0)

\* a second engine admitted at the check that follows one refused check
C20_Witness ==
    /\ cfg.pipeline_mode
    /\ 2 \in StartedEngines
    /\ StartGap(1) = FirstStartTask.std_duration \div 2 + BackOff

----------------------------------------------------------------------------
(* C21: in sequential mode at most one engine is in progress at any time:  *)
(* engine k+1 is started only after engine k has completed all its tasks,  *)
(* so every event of engine k+1 starts at or after the end of every event  *)
(* of engine k.                                                            *)

InProgress(u) == u \in StartedEngines /\ engine[u].completed # StepIds

C21_SequentialOneAtATime ==
    ~cfg.pipeline_mode
    => /\ Cardinality({u \in Engines : InProgress(u)}) <= 1
       /\ \A u \in StartedEngines :
              u > 1 => /\ engine[u - 1].completed = StepIds
                       /\ engine_start_times[u] >= engine_start_times[u - 1]
       /\ \A i, j \in DOMAIN events :
              events[j].engine_id = events[i].engine_id + 1
              => events[j].start_time >= events[i].end_time

\* a sequential run in which the second engine has logged a WAITING event
\* and a work period after the three tasks of the first engine
C21_Witness ==
    /\ ~cfg.pipeline_mode
    /\ \E i \in EventsOf("WAITING") : events[i].engine_id = 2
    /\ \E i \in EventsOf("NORMAL") : events[i].engine_id = 2
    /\ Cardinality({events[i].step_id : i \in {j \in EventsOf("NORMAL") :
                                               events[j].engine_id = 1}}) = 3

----------------------------------------------------------------------------
(* C22: when station_constraint_mode is on, every station named by a task  *)
(* is a critical resource that serves one task at a time and is among the  *)
(* required tools of every task at that station, so the work intervals of  *)
(* two task executions at the same station, across all engines, never      *)
(* overlap.                                                                *)

Stations == {nodes[i].station : i \in 1..Len(nodes)}

StationModeRuns == cfg.station_constraint_mode /\ phase \in {"running", "done"}

StationOf(i) == get_node(events[i].step_id).station

\* the work events at the station of work event i that are under way when
\* event i starts
UnderWayAtStartOf(i) ==
    {j \in WorkEvents :
        /\ StationOf(j) = StationOf(i)
        /\ events[j].start_time <= events[i].start_time
        /\ events[i].start_time < events[j].end_time}

StationsAreTools ==
    \A i \in 1..Len(nodes) :
        /\ nodes[i].station \in Critical
        /\ nodes[i].station \in SetOfSeq(nodes[i].required_tools)

----------------------------------------------------------------------------
(* C23: a task does not begin work, nor a rule-A rest, until it holds every *)
(* critical tool it needs, and it holds them all as long as it works or    *)
(* rests: every NORMAL and REWORK interval starts when the execution that  *)
(* logs it already holds all its critical equipment and ends before that   *)
(* execution gives any of it back.                                         *)

CriticalToolsOf(x) == SetOfSeq(critical_tools(get_node(x[2]).required_tools))

Holds(x, e) ==
    \E i \in 1..Len(users[e]) : users[e][i].u = x[1] /\ users[e][i].st = x[2]

HoldsAll(x) == \A e \in CriticalToolsOf(x) : Holds(x, e)

\* the step appends a NORMAL or REWORK event of task execution x
LogsWork(x) ==
    /\ Len(events') = Len(events) + 1
    /\ events'[Len(events')].event_type \in {"NORMAL", "REWORK"}
    /\ <<events'[Len(events')].engine_id, events'[Len(events')].step_id>> = x

C23_WorkHoldsAllEquipment ==
    /\ [](\A x \in TaskIds :
             Acquired(x) => HoldsAll(x) /\ task[x].task_start <= now)
    /\ [][\A x \in TaskIds :
             LogsWork(x)
             => /\ Acquired(x)
                /\ events'[Len(events')].start_time = task[x].task_start
                /\ events'[Len(events')].end_time <= now']_vars

\* one execution holds the first of its two critical tools and waits for
\* the second, and another one has logged work done with both
C23_Witness ==
    /\ \E x \in TaskIds, e \in Critical :
          /\ task[x].pc = "equip"
          /\ Holds(x, e)
          /\ ~HoldsAll(x)
    /\ \E i \in WorkEvents :
          /\ Len(events[i].equipment_used) = 2
          /\ events[i].end_time > events[i].start_time

----------------------------------------------------------------------------
(* C24: a request for a tool that is no critical equipment never suspends  *)
(* or queues the task, however many tasks use the tool at the same time: a *)
(* task whose tools are all unlimited is never in the equipment phase, and *)
(* it starts its rule-A rest or its work in the step, and at the time, at  *)
(* which it is given its last worker.                                      *)

UnlimitedOnly(x) ==
    /\ get_node(x[2]).required_tools # <<>>
    /\ CriticalToolsOf(x) = {}

Requested(x) ==
    \E e \in Critical :
        \/ Holds(x, e)
        \/ \E i \in 1..Len(put_queue[e]) :
              put_queue[e][i].u = x[1] /\ put_queue[e][i].st = x[2]

C24_UnlimitedToolsNeverWait ==
    /\ [](\A x \in TaskIds :
             UnlimitedOnly(x) => task[x].pc # "equip" /\ ~Requested(x))
    /\ [][\A x \in TaskIds :
             (UnlimitedOnly(x) /\ task[x].pc = "get" /\ task'[x].pc # "get")
             => \/ task'[x].pc = "work" /\ task'[x].task_start = now'
                \/ task'[x].pc = "restA" /\ task'[x].rest_start = now']_vars

\* two executions whose tools are all unlimited work with the same tool at
\* the same time
C24_Witness ==
    \E x, y \in TaskIds :
        /\ x # y
        /\ UnlimitedOnly(x) /\ UnlimitedOnly(y)
        /\ x[2] = y[2]
        /\ task[x].pc = "work" /\ task[y].pc = "work"
        /\ \E tool \in DOMAIN unlimited_equipment_count :
              unlimited_equipment_count[tool] >= 2

----------------------------------------------------------------------------
(* C25: the requests for one critical equipment are granted in the order   *)
(* in which they were issued: a request is never granted while a request   *)
(* for the same equipment that was issued before it is still waiting.      *)

Waiting(e) == SetOfSeq(put_queue[e])

\* the requests for e that the step grants
Granted(e) == {r \in SetOfSeq(users'[e]) : r \notin SetOfSeq(users[e])}

\* request r stands before position i of the queue of e
Ahead(e, r, i) == \E j \in 1..(i - 1) : put_queue[e][j] = r

C25_EquipmentFifo ==
    /\ [](\A e \in Critical : \A i, j \in 1..Len(put_queue[e]) :
             i < j => put_queue[e][i].time <= put_queue[e][j].time)
    /\ [][\A e \in Critical : \A i \in 1..Len(put_queue[e]) :
             put_queue[e][i] \in SetOfSeq(put_queue'[e])
             => \A r \in Granted(e) : Ahead(e, r, i)]_vars

\* an execution works with an equipment it had to wait for, while a request
\* issued later than its own is still waiting for that equipment
C25_Witness ==
    \E e \in Critical : \E r \in SetOfSeq(users[e]), q \in Waiting(e) :
        /\ r.time < q.time
        /\ task[r.u, r.st].pc = "work"
        /\ task[r.u, r.st].task_start > r.time
        /\ task[r.u, r.st].task_start > q.time

----------------------------------------------------------------------------
(* C26: blocked worker acquirers are served in the order of their calls:   *)
(* if one task execution called request_workers before another one and     *)
(* both had to block, the later one never completes its acquisition while  *)
(* the earlier one is still blocked.                                       *)

\* the step hands execution x the last worker of its crew
CompletesAcquire(x) ==
    /\ Blocked(x)
    /\ ~Blocked(x)'
    /\ Len(task[x].workers) = get_node(x[2]).required_workers - 1

C26_WorkerFifo ==
    [][\A a, b \in TaskIds :
          (/\ Blocked(a) /\ Blocked(b)
           /\ task[a].wait_start < task[b].wait_start
           /\ Blocked(a)')
          => ~CompletesAcquire(b)]_vars

----------------------------------------------------------------------------
(* C27: whenever request_workers takes a worker while idle workers are in  *)
(* the pool, the worker it takes has the least total_work_time of the      *)
(* workers that are idle, in the pool, at that moment.  Stated for the     *)
(* steps in which one worker leaves the store and none enters it, the      *)
(* store before the step being the pool at the moment of the choice.       *)

IdleInStore == {w \in SetOfSeq(items) : workers[w].state = "IDLE"}

\* the workers that leave the store in the step
Taken == {w \in SetOfSeq(items) : w \notin SetOfSeq(items')}

C27_LeastLoadedWorkerTaken ==
    [][(Cardinality(Taken) = 1 /\ SetOfSeq(items') \subseteq SetOfSeq(items))
       => \A w \in Taken : \A v \in IdleInStore :
              workers[w].total_work_time <= workers[v].total_work_time]_vars

----------------------------------------------------------------------------
(* C28: the load-balanced choice is stable under equal total_work_time:    *)
(* when several idle workers tie on total_work_time, the one with the      *)
(* smallest id is taken, whatever the order in which the workers were      *)
(* released back to the pool.  Stated for the steps in which request_      *)
(* workers finds no get pending, takes one worker and none is returned.    *)

ChoosesAtOnce ==
    /\ get_queue = <<>>
    /\ get_queue' = <<>>
    /\ Cardinality(Taken) = 1
    /\ SetOfSeq(items') \subseteq SetOfSeq(items)

C28_TieBrokenById ==
    [][ChoosesAtOnce
       => \A w \in Taken : \A v \in IdleInStore :
              workers[v].total_work_time = workers[w].total_work_time
              => w <= v]_vars

----------------------------------------------------------------------------
(* C29: worker state agrees with pool ownership: idle, working and resting *)
(* workers add up to num_workers, the idle count the pool reports is the   *)
(* number of workers no acquirer has taken, and a worker's state changes   *)
(* only by an acquisition (idle to working), a rest of the crew that holds *)
(* it (working to resting and back) and a release (working to idle).       *)

InState(state) == {w \in WorkerIds : workers[w].state = state}

\* the workers no get of an acquirer has taken out of the store
NotTaken == SetOfSeq(items)

\* worker w is handed to its acquirer in the step
HandedOver(w) == IsHead("StoreGet", "task") /\ head.val = w

\* worker w belongs to a crew that is resting after the step
RestsAfter(w) ==
    \E x \in TaskIds : /\ task'[x].pc \in {"restA", "restB"}
                       /\ w \in SetOfSeq(task'[x].workers)

\* worker w belongs to the crew whose rest ends with the step
RestEnds(w) ==
    /\ IsHead("Timeout", "task")
    /\ task[head.u, head.st].pc \in {"restA", "restB"}
    /\ w \in SetOfSeq(task[head.u, head.st].workers)

\* worker w is back in the store after the step, or already on its way to
\* the next acquirer
ReturnedAfter(w) ==
    \/ w \in SetOfSeq(items')
    \/ \E i \in 1..Len(queue') :
          queue'[i].kind = "StoreGet" /\ queue'[i].val = w

C29_StateAgreesWithOwnership ==
    /\ [](/\ Cardinality(InState("IDLE")) + Cardinality(InState("WORKING"))
               + Cardinality(InState("RESTING")) = cfg.num_workers
          /\ get_available_count(cur) = Cardinality(NotTaken))
    /\ [][\A w \in WorkerIds :
             /\ (workers[w].state = "IDLE" /\ workers'[w].state # "IDLE")
                => HandedOver(w)
             /\ (workers[w].state # "RESTING" /\ workers'[w].state = "RESTING")
                => RestsAfter(w)
             /\ (workers[w].state = "RESTING" /\ workers'[w].state # "RESTING")
                => RestEnds(w)
             /\ (workers[w].state # "IDLE" /\ workers'[w].state = "IDLE")
                => ReturnedAfter(w)]_vars

----------------------------------------------------------------------------
(* C30: a WAITING event is logged only when the acquire phase took time:   *)
(* every WAITING event has end_time > start_time and spans one acquire     *)
(* phase, from the request for workers to the moment all workers and all   *)
(* critical equipment are held; an acquire phase that takes no time logs   *)
(* no WAITING event.                                                       *)

Acquiring(x) == task[x].pc \in {"get", "equip"}

\* the step ends the acquire phase of execution x
EndsAcquire(x) == Acquiring(x) /\ ~Acquiring(x)'

\* the WAITING events of execution x
WaitingOf(log, x) ==
    {i \in 1..Len(log) : /\ log[i].event_type = "WAITING"
                         /\ <<log[i].engine_id, log[i].step_id>> = x}

C30_WaitingOnlyWhenBlocked ==
    /\ [](\A i \in EventsOf("WAITING") :
             events[i].end_time > events[i].start_time)
    /\ [][\A x \in TaskIds :
             /\ WaitingOf(events', x) # WaitingOf(events, x)
                => /\ EndsAcquire(x)
                   /\ events'[Len(events')].event_type = "WAITING"
                   /\ events'[Len(events')].start_time = task[x].wait_start
                   /\ events'[Len(events')].end_time = now'
                   /\ Len(task'[x].workers) = get_node(x[2]).required_workers
                   /\ HoldsAll(x)
                   /\ Cardinality(WaitingOf(events', x))
                        = Cardinality(WaitingOf(events, x)) + 1
             /\ (EndsAcquire(x) /\ now' = task[x].wait_start)
                => WaitingOf(events', x) = WaitingOf(events, x)]_vars

\* one execution has logged two WAITING events, one before its first work
\* period and one between a rework and the work period after it, and
\* another execution has worked without any WAITING event
C30_Witness ==
    /\ \E x \in TaskIds : \E i, j \in WaitingOf(events, x), k \in EventsOf("REWORK") :
          /\ i < k /\ k < j
          /\ <<events[k].engine_id, events[k].step_id>> = x
          /\ events[j].start_time >= events[k].end_time
    /\ \E y \in TaskIds :
          /\ WaitingOf(events, y) = {}
          /\ \E i \in EventsOf("NORMAL") :
                <<events[i].engine_id, events[i].step_id>> = y

----------------------------------------------------------------------------
(* C31: every sampled work duration is at least one minute: every NORMAL   *)
(* and every REWORK event lasts at least MinDuration, whatever the nominal *)
(* duration and the variance of its task, a variance of 0 included.        *)

C31_DurationClamped ==
    \A i \in WorkEvents :
        events[i].end_time - events[i].start_time >= MinDuration

----------------------------------------------------------------------------
(* C32: the quality statistics are a projection of the log:                *)
(* total_inspections is the number of NORMAL events of op_type M,          *)
(* total_reworks is the number of REWORK events and rework_time_total is   *)
(* the sum of the durations of the REWORK events.                          *)

\* the events of the log that are of one of the types
EventsIn(log, types) == SelectSeq(log, LAMBDA e : e.event_type \in types)

\* the summed durations of the events of a log
Durations(log) ==
    SumSeq([i \in 1..Len(log) |-> log[i].end_time - log[i].start_time])

Inspections == SelectSeq(EventsIn(events, {"NORMAL"}), LAMBDA e : e.op_type = "M")

C32_QualityStatsProjectLog ==
    /\ stats.total_inspections = Len(Inspections)
    /\ stats.total_reworks = Len(EventsIn(events, {"REWORK"}))
    /\ stats.rework_time_total = Durations(EventsIn(events, {"REWORK"}))

----------------------------------------------------------------------------
(* C33: for the same process and the same configuration apart from         *)
(* pipeline_mode, the pipeline run completes at least as many engines as   *)
(* the sequential run.                                                     *)

\* the pipeline run that followed a sequential run has ended
Compared == run = 2 /\ phase = "done" /\ cfg.pipeline_mode

\* no step of the process draws a random number
Deterministic ==
    \A i \in 1..Len(nodes) :
        nodes[i].time_variance = 0 /\ nodes[i].rework_prob = 0

C33_PipelineCompletesNoFewer ==
    (Compared /\ Deterministic)
    => engines_completed >= result1.engines_completed

----------------------------------------------------------------------------
(* C34: scenario S1: one task of 10 minutes (no variance, load 5, no       *)
(* rework), one worker, a budget of 60 minutes and target_output = 1: the  *)
(* run ends with engines_completed = 1, exactly one NORMAL event in the    *)
(* log and avg_cycle_time = 10 minutes.                                    *)

\* the run is on the scenario S1
IsSingleTask ==
    [cfg |-> [cfg EXCEPT !.pipeline_mode = TRUE], nodes |-> nodes] \in SingleTask

C34_SingleTaskScenario ==
    (IsSingleTask /\ phase = "done")
    => /\ engines_completed = 1
       /\ Len(EventsIn(events, {"NORMAL"})) = 1
       /\ avg_cycle_time(cur).num = 200 * avg_cycle_time(cur).den

----------------------------------------------------------------------------
(* C35: a run of SimulationEngineNoRest never rests: no worker is ever in  *)
(* the resting state, no REST event is ever logged, and every worker's     *)
(* total_rest_time stays 0.                                                *)

\* the run is one of SimulationEngineNoRest
IsNoRest == cfg.rest_time_threshold = NoRestThreshold

C35_NoRestNeverRests ==
    IsNoRest
    => /\ InState("RESTING") = {}
       /\ EventsOf("REST") = {}
       /\ \A w \in WorkerIds : workers[w].total_rest_time = 0

\* a run without rest has ended after it completed a task of the highest
\* load score, on a worker whose work went beyond the time threshold of the
\* configuration the run was derived from
C35_Witness ==
    /\ IsNoRest
    /\ phase = "done"
    /\ \E i \in EventsOf("NORMAL") :
          /\ get_node(events[i].step_id).work_load_score = 10
          /\ \E w \in WorkerIds : workers[w].consecutive_work_time >= 16

----------------------------------------------------------------------------
(* C36: each task is executed exactly once per engine: a task is launched  *)
(* only if it was never launched before for that engine (it is neither     *)
(* running nor completed), the log holds at most one NORMAL event per      *)
(* engine and task, and exactly one for every task of an engine whose      *)
(* tasks are all completed.                                                *)

\* the processes of execution x that wait for their start in the queue q
Launches(q, x) ==
    {i \in 1..Len(q) : /\ q[i].kind = "Initialize" /\ q[i].pk = "task"
                       /\ <<q[i].u, q[i].st>> = x}

\* the NORMAL events of execution x
NormalOf(x) ==
    {i \in EventsOf("NORMAL") : <<events[i].engine_id, events[i].step_id>> = x}

\* every task of engine u is in its completed set
AllCompleted(u) == Cardinality(engine[u].completed) = get_node_count

C36_TaskRunsOncePerEngine ==
    /\ [](\A x \in TaskIds :
             /\ Cardinality(NormalOf(x)) <= 1
             /\ AllCompleted(x[1]) => Cardinality(NormalOf(x)) = 1)
    /\ [][\A x \in TaskIds :
             Cardinality(Launches(queue', x)) > Cardinality(Launches(queue, x))
             => /\ task[x].pc = "none"
                /\ x[2] \notin engine[x[1]].running \cup engine[x[1]].completed
                /\ x[2] \in engine'[x[1]].running
                /\ Cardinality(Launches(queue', x)) = 1]_vars

\* an engine of three tasks has completed all of them while a later engine
\* has tasks running
C36_Witness ==
    \E u, v \in Engines :
        /\ u < v
        /\ Len(nodes) = 3
        /\ AllCompleted(u)
        /\ engine[v].running # {}

----------------------------------------------------------------------------
(* C37: a task execution keeps no resource past its attempt: in the step   *)
(* that logs its REWORK or its NORMAL event, every worker of its crew has  *)
(* gone back to the store and it holds no unit of any critical equipment;  *)
(* hence whenever no task execution is inside execute_task, all            *)
(* num_workers workers are idle in the store and no critical equipment     *)
(* has a holder.                                                           *)

\* no task execution is between its request for workers and its release
NoneExecuting == \A x \in TaskIds : ~Executing(x)

C37_NothingKeptPastAttempt ==
    /\ [](NoneExecuting
            => /\ SetOfSeq(items) = WorkerIds
               /\ InState("IDLE") = WorkerIds
               /\ \A e \in Critical : users[e] = <<>>)
    /\ [][\A x \in TaskIds :
             LogsWork(x)
             => /\ \A w \in SetOfSeq(task[x].workers) : ReturnedAfter(w)
                /\ \A e \in Critical : \A i \in 1..Len(users'[e]) :
                      <<users'[e][i].u, users'[e][i].st>> # x
                /\ events'[Len(events')].event_type = "NORMAL"
                   => /\ SetOfSeq(task[x].workers) \subseteq SetOfSeq(items')
                      /\ ~Executing(x)'
                /\ events'[Len(events')].event_type = "REWORK"
                   => task'[x].pc = "get"]_vars

\* after a rework and the completion of a task that used a critical
\* equipment with a crew, no task execution is under way
C37_Witness ==
    /\ NoneExecuting
    /\ EventsOf("REWORK") # {}
    /\ \E i \in EventsOf("NORMAL") :
          events[i].equipment_used # <<>> /\ events[i].worker_ids # <<>>

----------------------------------------------------------------------------
(* C38: at the end of every run, cut off by the time budget or not, the    *)
(* worker statistics are a projection of the event log: for every worker   *)
(* w, work_time is the summed duration of the NORMAL and REWORK events     *)
(* that list w, rest_time is the summed duration of the REST events that   *)
(* list w, and tasks_completed is the number of NORMAL events that list w. *)

\* the events of the given types that list worker w
EventsListing(w, types) ==
    SelectSeq(EventsIn(events, types), LAMBDA e : w \in SetOfSeq(e.worker_ids))

C38_WorkerStatsProjectLog ==
    (phase = "done" /\ result.status = "COMPLETED")
    => \A w \in WorkerIds :
          /\ result.worker_stats[w].work_time
               = Durations(EventsListing(w, {"NORMAL", "REWORK"}))
          /\ result.worker_stats[w].rest_time
               = Durations(EventsListing(w, {"REST"}))
          /\ result.worker_stats[w].tasks_completed
               = Len(EventsListing(w, {"NORMAL"}))

----------------------------------------------------------------------------
(* C39: the usage log of a critical equipment is per holder: the number of *)
(* open intervals of E is the number of task executions that hold E, and   *)
(* the interval that is closed when an execution releases E is the         *)
(* interval of that execution: it ends now and it began when the           *)
(* execution acquired E, between its request for workers and the start of  *)
(* its work.                                                               *)

\* the intervals of E's usage log that have no end yet
OpenIntervals(log) == {i \in 1..Len(log) : log[i][2] = -1}

\* execution x gives E back in the step
Releases(x, e) ==
    /\ Holds(x, e)
    /\ \A i \in 1..Len(users'[e]) : <<users'[e][i].u, users'[e][i].st>> # x

C39_UsageLogPerHolder ==
    /\ [](\A e \in Critical :
             Cardinality(OpenIntervals(usage_log[e])) = Cardinality(HoldersOf(e)))
    /\ [][\A e \in Critical : \A i \in OpenIntervals(usage_log[e]) :
             i \notin OpenIntervals(usage_log'[e])
             => \E x \in TaskIds :
                   /\ Releases(x, e)
                   /\ usage_log'[e][i][2] = now'
                   /\ usage_log[e][i][1] >= task[x].wait_start
                   /\ usage_log[e][i][1] <= task[x].task_start]_vars

----------------------------------------------------------------------------
(* C40: whatever the run has logged, total_reworks <= total_inspections    *)
(* whenever total_inspections > 0, so the reported first_pass_rate lies    *)
(* between 0 and 1, and it is 1 when nothing was inspected.                *)

C40_FirstPassRateInRange ==
    LET q == get_quality_stats(cur)
    IN  /\ q.total_inspections > 0 => q.total_reworks <= q.total_inspections
        /\ 0 <= q.first_pass_rate.num
        /\ q.first_pass_rate.num <= q.first_pass_rate.den
        /\ q.total_inspections = 0 => q.first_pass_rate.num = q.first_pass_rate.den

\* a run has ended with a measurement that passed after it was reworked
C40_Witness ==
    /\ phase = "done"
    /\ stats.total_reworks > 0
    /\ \E i \in EventsOf("NORMAL") : events[i].rework_count > 0

====
